---- MODULE Spec2Model ----
(***************************************************************************)
(* A model of the algorithmic utilities of hhoppe_tools                    *)
(* (src/hhoppe_tools/__init__.py):                                         *)
(*   - class UnionFind (union / same / find with path compression);        *)
(*   - topological_sort, the depth-first implementation that runs when     *)
(*     sys.version_info <= (3, 9); on newer interpreters the function      *)
(*     delegates to the standard library's graphlib, which is not code of  *)
(*     this repository and is not modelled;                                *)
(*   - class Stats, fit_shape and assemble_arrays;                         *)
(*   - grid_from_string and string_from_grid;                              *)
(*   - check_eq (also that of src/hhoppe_utils.py), extended_gcd,          *)
(*     modular_inverse and discrete_binary_search.                         *)
(* Each component has its own specification; the variables of the other    *)
(* components stay at their initial values.                                *)
(***************************************************************************)
EXTENDS Integers, Sequences, FiniteSets, TLC

VARIABLES
  rep,      \* UnionFind._rep: the dict element -> parent
  prev,     \* the value of _rep when the last operation was called
  op,       \* the last operation and its arguments, <<name, a, b>>
  ret,      \* what the last operation returned
  conn,     \* the equivalence generated by the pairs passed to union so far
  graph,    \* the argument of topological_sort: [keys, deps]
  call,     \* the last call of topological_sort: <<name, cycle_check>>
  out,      \* the outcome of that call: [status, result, entered]
  acc,      \* a Stats instance: [size, sum, sum2, min, max]
  accOf,    \* the samples acc was built from, each as often as it counts
  sprev,    \* the instance the last Stats operation was applied to
  sprevOf,  \* the samples of sprev
  sop,      \* the last Stats operation: <<name, samples of the operand, n>>
  fsIn,     \* the arguments of the last fit_shape call: <<shape, num>>
  fsOut,    \* its outcome: [status, shape, kinds]
  asIn,     \* the arguments of assemble_arrays
  asOut,    \* the outcome of the assemble_arrays call
  gsIn,     \* the arguments of the string/grid round trip: [s, int_from_ch]
  gsOut,    \* its outcome: [status, grid, text]
  ce,       \* the last check_eq call: [impl, a, b, status, message]
  eg,       \* extended_gcd / modular_inverse in progress: arguments, locals, outcome
  bs        \* discrete_binary_search in progress: arguments, locals, outcome

vars == <<rep, prev, op, ret, conn, graph, call, out,
          acc, accOf, sprev, sprevOf, sop, fsIn, fsOut, asIn, asOut,
          gsIn, gsOut, ce, eg, bs>>

ufvars == <<rep, prev, op, ret, conn>>
tsvars == <<graph, call, out>>
stvars == <<acc, accOf, sprev, sprevOf, sop>>
fsvars == <<fsIn, fsOut>>
asvars == <<asIn, asOut>>
gsvars == <<gsIn, gsOut>>
cevars == <<ce>>
egvars == <<eg>>
bsvars == <<bs>>

-----------------------------------------------------------------------------
(* Bounds.                                                                 *)

NumElems == 3

NumNodes == 4

MaxEdges == 3

\* The longest list of samples passed to Stats.
MaxSamples == 2

\* The largest n of Stats * n.
MaxRepeat == 3

\* The most samples an instance stands for.
MaxTotal == MaxSamples + 1

\* The values of the samples.
SampleValues == {-2, 1, 3}

\* The longest shape passed to fit_shape.
MaxRank == 2

\* The largest dimension of a shape passed to fit_shape.
MaxDim == 3

\* The largest num passed to fit_shape.
MaxNum == 4

\* The most arrays passed to assemble_arrays.
MaxArrays == 3

\* The most lines of a string passed to grid_from_string.
MaxHeight == 2

\* The largest integer passed to check_eq, and the longest array.
MaxCheckValue == 2

MaxArrayLen == 2

\* The largest argument of extended_gcd and modular_inverse.
MaxGcdArg == 10

\* The search interval of discrete_binary_search lies in -MaxX .. MaxX.
MaxX == 2

Elems == 1 .. NumElems

Nodes == 1 .. NumNodes

-----------------------------------------------------------------------------
(* Helpers for dicts and lists.                                            *)

Range(s) == {s[i] : i \in DOMAIN s}

\* d[k] = v on a dict.
Put(d, k, v) == [x \in (DOMAIN d) \cup {k} |-> IF x = k THEN v ELSE d[x]]

\* The empty dict.
EmptyDict == [x \in {} |-> 0]

\* list[::-1] and reversed(list).
Reverse(s) == [i \in 1 .. Len(s) |-> s[Len(s) + 1 - i]]

-----------------------------------------------------------------------------
(* UnionFind.                                                              *)

\* The while-loop of find: from element a, with the list parents built so far.
\* steps counts the iterations made; a chain through distinct elements takes at
\* most NumElems of them, so a loop that makes more never ends (done = FALSE).
RECURSIVE Chase(_, _, _, _)
RECURSIVE Chase_NoInsert(_, _, _, _)

\* A mutant of Chase: a plain lookup, which stops at an element that is not a
\* key without storing it (no setdefault).
Chase_NoInsert(r, a, parents, steps) ==
  LET parent == IF a \in DOMAIN r THEN r[a] ELSE a
  IN  IF parent = a
        THEN [rep |-> r, a |-> a, parents |-> parents, done |-> TRUE]
        ELSE IF steps >= NumElems
          THEN [rep |-> r, a |-> a, parents |-> parents, done |-> FALSE]
          ELSE Chase_NoInsert(r, parent, Append(parents, a), steps + 1)

Chase(r, a, parents, steps) ==
  LET r1 == IF a \in DOMAIN r THEN r ELSE Put(r, a, a)   \* setdefault(a, a)
      parent == r1[a]
  IN  IF parent = a
        THEN [rep |-> r1, a |-> a, parents |-> parents, done |-> TRUE]
        ELSE IF steps >= NumElems
          THEN [rep |-> r1, a |-> a, parents |-> parents, done |-> FALSE]
          ELSE Chase(r1, parent, Append(parents, a), steps + 1)

\* A mutant of Compress: every element of the path becomes its own parent.
Compress_SelfParent(r, parents, a) ==
  [k \in DOMAIN r |-> IF k \in Range(parents) THEN k ELSE r[k]]

\* for p in parents: self._rep[p] = a
Compress(r, parents, a) ==
  [k \in DOMAIN r |-> IF k \in Range(parents) THEN a ELSE r[k]]

\* A mutant of Find: no early return for an element that is not a key.
Find_NoEarlyReturn(r, a) ==
  LET c == Chase(r, a, <<>>, 0)
  IN  [rep |-> IF c.done THEN Compress(c.rep, c.parents, c.a) ELSE c.rep,
       ret |-> c.a, done |-> c.done]

\* find(a) called on dict r: the dict afterwards, the value returned, and
\* whether the call returns at all.
Find(r, a) ==
  IF a \notin DOMAIN r
    THEN [rep |-> r, ret |-> a, done |-> TRUE]
    ELSE LET c == Chase(r, a, <<>>, 0)
         IN  [rep |-> IF c.done THEN Compress(c.rep, c.parents, c.a) ELSE c.rep,
              ret |-> c.a, done |-> c.done]

\* A mutant of UnionRep: attaches rep_b to a itself instead of to rep_a.
UnionRep_AttachToArg(r, a, b) ==
  LET fa == Find(r, a)
      fb == Find(fa.rep, b)
  IN  [rep |-> Put(fb.rep, fb.ret, a), done |-> fa.done /\ fb.done]

\* A mutant of UnionRep: redirects b itself instead of its representative.
UnionRep_MoveArg(r, a, b) ==
  LET fa == Find(r, a)
      fb == Find(fa.rep, b)
  IN  [rep |-> Put(fb.rep, b, fa.ret), done |-> fa.done /\ fb.done]

\* A mutant of UnionRep: merges the class of a into that of b.
UnionRep_Swapped(r, a, b) ==
  LET fa == Find(r, a)
      fb == Find(fa.rep, b)
  IN  [rep |-> Put(fb.rep, fa.ret, fb.ret), done |-> fa.done /\ fb.done]

\* union(a, b) called on dict r: the dict afterwards, and whether the call
\* returns at all.
UnionRep(r, a, b) ==
  LET fa == Find(r, a)
      fb == Find(fa.rep, b)
  IN  [rep |-> Put(fb.rep, fb.ret, fa.ret), done |-> fa.done /\ fb.done]

\* same(a, b) called on dict r: the dict afterwards and the value returned.
SameRep(r, a, b) ==
  LET fa == Find(r, a)
      fb == Find(fa.rep, b)
  IN  [rep |-> fb.rep, ret |-> (fa.ret = fb.ret), done |-> fa.done /\ fb.done]

\* The equivalence relation conn with the classes of a and b joined.
Connect(c, a, b) ==
  c \cup {<<x, y>> \in Elems \X Elems :
            \/ <<x, a>> \in c /\ <<b, y>> \in c
            \/ <<x, b>> \in c /\ <<a, y>> \in c}

Identity == {<<x, x>> : x \in Elems}

InitUF ==
  /\ rep = EmptyDict
  /\ prev = EmptyDict
  /\ op = <<"init", 0, 0>>
  /\ ret = "None"
  /\ conn = Identity

Union(a, b) ==
  LET u == UnionRep(rep, a, b)
  IN  /\ u.done
      /\ rep' = u.rep
      /\ prev' = rep
      /\ op' = <<"union", a, b>>
      /\ ret' = "None"
      /\ conn' = Connect(conn, a, b)

FindOp(a) ==
  LET f == Find(rep, a)
  IN  /\ f.done
      /\ rep' = f.rep
      /\ prev' = rep
      /\ op' = <<"find", a, a>>
      /\ ret' = f.ret
      /\ conn' = conn

Same(a, b) ==
  LET s == SameRep(rep, a, b)
  IN  /\ s.done
      /\ rep' = s.rep
      /\ prev' = rep
      /\ op' = <<"same", a, b>>
      /\ ret' = s.ret
      /\ conn' = conn

-----------------------------------------------------------------------------
(* topological_sort (the depth-first implementation).                      *)
(* A graph is a dict: keys is the list of its keys in insertion order and  *)
(* deps[k] is the list graph[k].                                           *)

KeySet(g) == Range(g.keys)

\* The state of one call: the list result, the set seen, the nodes recurse was
\* entered with (in order), and the exception raised so far ("none" if none).
StartState == [result |-> <<>>, seen |-> {}, entered |-> <<>>, err |-> "none"]

RECURSIVE recurse(_, _, _)
RECURSIVE VisitDependents(_, _, _, _)

\* A mutant of recurse: appends the node before visiting its dependents.
recurse_PreOrder(g, node, st) ==
  IF st.err # "none" THEN st
  ELSE IF node \notin KeySet(g)
    THEN [st EXCEPT !.entered = Append(@, node), !.err = "KeyError"]
    ELSE VisitDependents(g, Reverse(g.deps[node]), 1,
                         [st EXCEPT !.entered = Append(@, node),
                                    !.result = Append(@, node)])

\* recurse(node): graph[node] raises KeyError when node is not a key.
recurse(g, node, st) ==
  IF st.err # "none" THEN st
  ELSE IF node \notin KeySet(g)
    THEN [st EXCEPT !.entered = Append(@, node), !.err = "KeyError"]
    ELSE LET after == VisitDependents(g, Reverse(g.deps[node]), 1,
                                      [st EXCEPT !.entered = Append(@, node)])
         IN  IF after.err # "none" THEN after
             ELSE [after EXCEPT !.result = Append(@, node)]

\* for dependent in reversed(graph[node]): ds is the reversed list, i the index
\* of the next dependent.
VisitDependents(g, ds, i, st) ==
  IF i > Len(ds) \/ st.err # "none" THEN st
  ELSE IF ds[i] \in st.seen
    THEN VisitDependents(g, ds, i + 1, st)
    ELSE VisitDependents(g, ds, i + 1,
                         recurse(g, ds[i], [st EXCEPT !.seen = @ \cup {ds[i]}]))

\* all_dependents.update(*graph.values())
AllDependents(g) == UNION {Range(g.deps[k]) : k \in KeySet(g)}

RECURSIVE VisitRoots(_, _, _, _)

\* A mutant of VisitRoots: starts from every key, a dependent of another or not.
VisitRoots_NoFilter(g, rs, i, st) ==
  IF i > Len(rs) \/ st.err # "none" THEN st
  ELSE VisitRoots(g, rs, i + 1, recurse(g, rs[i], st))

\* for node in reversed(list(graph)): rs is the reversed list of keys.
VisitRoots(g, rs, i, st) ==
  IF i > Len(rs) \/ st.err # "none" THEN st
  ELSE IF rs[i] \in AllDependents(g)
    THEN VisitRoots(g, rs, i + 1, st)
    ELSE VisitRoots(g, rs, i + 1, recurse(g, rs[i], st))

\* graph.items() flattened: the pairs <<node, dependent>> in iteration order.
RECURSIVE EdgesFrom(_, _)
EdgesFrom(g, i) ==
  IF i > Len(g.keys) THEN <<>>
  ELSE [j \in 1 .. Len(g.deps[g.keys[i]]) |-> <<g.keys[i], g.deps[g.keys[i]][j]>>]
       \o EdgesFrom(g, i + 1)

EdgeList(g) == EdgesFrom(g, 1)

\* position = {node: i for i, node in enumerate(result)}: the last index wins.
Position(result, n) ==
  CHOOSE i \in 1 .. Len(result) :
    result[i] = n /\ \A j \in 1 .. Len(result) : result[j] = n => j <= i

\* A mutant of CycleCheck: the comparison turned round.
RECURSIVE CycleCheck_Flipped(_, _, _)
CycleCheck_Flipped(result, edges, i) ==
  IF i > Len(edges) THEN "ok"
  ELSE IF edges[i][1] \notin Range(result) \/ edges[i][2] \notin Range(result)
    THEN "KeyError"
    ELSE IF Position(result, edges[i][1]) > Position(result, edges[i][2])
      THEN "ValueError"
      ELSE CycleCheck_Flipped(result, edges, i + 1)

\* The loop of the cycle check over the edges from index i on: position[...]
\* raises KeyError for a node that is not in result.
RECURSIVE CycleCheck(_, _, _)
CycleCheck(result, edges, i) ==
  IF i > Len(edges) THEN "ok"
  ELSE IF edges[i][1] \notin Range(result) \/ edges[i][2] \notin Range(result)
    THEN "KeyError"
    ELSE IF Position(result, edges[i][1]) < Position(result, edges[i][2])
      THEN "ValueError"
      ELSE CycleCheck(result, edges, i + 1)

\* A mutant of TopologicalSort: returns result without reversing it.
TopologicalSort_NoReverse(g, cycle_check) ==
  LET st == VisitRoots(g, Reverse(g.keys), 1, StartState)
      chk == IF st.err = "none" /\ cycle_check
               THEN CycleCheck(st.result, EdgeList(g), 1) ELSE "ok"
      status == IF st.err # "none" THEN st.err ELSE chk
  IN  [status |-> status,
       result |-> IF status = "ok" THEN st.result ELSE <<>>,
       entered |-> st.entered]

\* topological_sort(graph, cycle_check): status is "ok" when a list is returned
\* (result) and the name of the exception raised otherwise.
TopologicalSort(g, cycle_check) ==
  LET st == VisitRoots(g, Reverse(g.keys), 1, StartState)
      chk == IF st.err = "none" /\ cycle_check
               THEN CycleCheck(st.result, EdgeList(g), 1) ELSE "ok"
      status == IF st.err # "none" THEN st.err ELSE chk
  IN  [status |-> status,
       result |-> IF status = "ok" THEN Reverse(st.result) ELSE <<>>,
       entered |-> st.entered]

(* The graphs the calls are made on.                                       *)

\* The sum of the lengths L[1] .. L[i].
RECURSIVE SumTo(_, _)
SumTo(L, i) == IF i = 0 THEN 0 ELSE L[i] + SumTo(L, i - 1)

\* The lengths of the lists of a dict with k keys: at most MaxEdges entries in all.
LengthVectors(k) ==
  {L \in [1 .. k -> 0 .. MaxEdges] : SumTo(L, k) <= MaxEdges}

\* The dict with keys ks whose i-th key (in the order 1 .. k) has the list of
\* L[i] entries cut from the flat list f.
MakeGraph(ks, L, f) ==
  [keys |-> ks,
   deps |-> [i \in 1 .. Len(ks) |->
               [j \in 1 .. L[i] |-> f[SumTo(L, i - 1) + j]]]]

\* The key order of the first doctest, {2: [3], 3: [4], 1: [2], 4: []}.
DoctestKeys == <<2, 3, 1, 4>>

\* The graph of the first doctest: deps[n] is graph[n].
DoctestGraph1 ==
  [keys |-> DoctestKeys, deps |-> <<(<<2>>), (<<3>>), (<<4>>), (<<>>)>>]

\* Up to renaming the nodes, the keys of a dict are 1 .. k in this order; the
\* nodes above k are no keys. The doctest's order is kept as written.
KeyOrders == {[i \in 1 .. k |-> i] : k \in 0 .. NumNodes} \cup {DoctestKeys}

NoCall == <<"none", FALSE>>

NoOut == [status |-> "none", result |-> <<>>, entered |-> <<>>]

EmptyGraph == [keys |-> <<>>, deps |-> <<>>]

InitTS ==
  /\ \E ks \in KeyOrders :
       \E L \in LengthVectors(Len(ks)) :
         \E f \in [1 .. SumTo(L, Len(ks)) -> Nodes] : graph = MakeGraph(ks, L, f)
  /\ call = NoCall
  /\ out = NoOut

Sort(cycle_check) ==
  /\ call' = <<"topological_sort", cycle_check>>
  /\ out' = TopologicalSort(graph, cycle_check)
  /\ graph' = graph

-----------------------------------------------------------------------------
(* Stats.                                                                  *)
(* The samples are integers, so sums and sums of squares are exact. min    *)
(* and max are numbers or +-math.inf: [inf |-> 1] is +inf, [inf |-> -1] is *)
(* -inf and [inf |-> 0, v |-> x] is the number x.                          *)

PosInf == [inf |-> 1, v |-> 0]

NegInf == [inf |-> -1, v |-> 0]

Fin(x) == [inf |-> 0, v |-> x]

\* min(a, b) and max(a, b) of Python on numbers and +-inf.
ExtMin(a, b) ==
  IF a.inf # b.inf THEN (IF a.inf < b.inf THEN a ELSE b)
  ELSE IF a.inf # 0 THEN a
  ELSE IF b.v < a.v THEN b ELSE a

ExtMax(a, b) ==
  IF a.inf # b.inf THEN (IF a.inf > b.inf THEN a ELSE b)
  ELSE IF a.inf # 0 THEN a
  ELSE IF b.v > a.v THEN b ELSE a

\* a.sum(), np.square(a).sum(), a.min() and a.max() of an array of samples.
RECURSIVE ArraySum(_)
ArraySum(xs) == IF xs = <<>> THEN 0 ELSE Head(xs) + ArraySum(Tail(xs))

RECURSIVE ArraySumSquares(_)
ArraySumSquares(xs) ==
  IF xs = <<>> THEN 0 ELSE Head(xs) * Head(xs) + ArraySumSquares(Tail(xs))

ArrayMin(xs) == CHOOSE m \in Range(xs) : \A x \in Range(xs) : m <= x

ArrayMax(xs) == CHOOSE m \in Range(xs) : \A x \in Range(xs) : m >= x

\* Stats(): no argument.
StatsEmpty == [size |-> 0, sum |-> 0, sum2 |-> 0, min |-> PosInf, max |-> NegInf]

\* Stats(xs): one argument, the samples.
StatsNew(xs) ==
  [size |-> Len(xs),
   sum |-> ArraySum(xs),
   sum2 |-> ArraySumSquares(xs),
   min |-> IF Len(xs) > 0 THEN Fin(ArrayMin(xs)) ELSE PosInf,
   max |-> IF Len(xs) > 0 THEN Fin(ArrayMax(xs)) ELSE NegInf]

\* Stats.__eq__: the five fields as tuples.
StatsEq(a, b) ==
  <<a.size, a.sum, a.sum2, a.min, a.max>> = <<b.size, b.sum, b.sum2, b.min, b.max>>

\* A mutant of StatsAdd: keeps the minimum of the left operand.
StatsAdd_LeftMin(a, b) ==
  [size |-> a.size + b.size, sum |-> a.sum + b.sum, sum2 |-> a.sum2 + b.sum2,
   min |-> a.min, max |-> ExtMax(a.max, b.max)]

\* Stats.__add__
StatsAdd(a, b) ==
  [size |-> a.size + b.size, sum |-> a.sum + b.sum, sum2 |-> a.sum2 + b.sum2,
   min |-> ExtMin(a.min, b.min), max |-> ExtMax(a.max, b.max)]

\* A mutant of StatsMul: the sum of squares scaled by n * n.
StatsMul_SquareScaled(a, n) ==
  [size |-> a.size * n, sum |-> a.sum * n, sum2 |-> a.sum2 * n * n,
   min |-> a.min, max |-> a.max]

\* Stats.__mul__
StatsMul(a, n) ==
  [size |-> a.size * n, sum |-> a.sum * n, sum2 |-> a.sum2 * n,
   min |-> a.min, max |-> a.max]

(* The results of the queries: a float is [kind |-> "num"] with the value    *)
(* num / den, or its square root when root is set; [kind |-> "nan"] is       *)
(* math.nan; [kind |-> "ZeroDivision"] is a division by zero.                *)

Num(n, d, r) == [kind |-> "num", num |-> n, den |-> d, root |-> r]

NaN == [kind |-> "nan", num |-> 0, den |-> 1, root |-> FALSE]

ZeroDivision == [kind |-> "ZeroDivision", num |-> 0, den |-> 0, root |-> FALSE]

Zero == Num(0, 1, FALSE)

\* n / d
Quot(n, d) == IF d = 0 THEN ZeroDivision ELSE Num(n, d, FALSE)

\* x ** 0.5
Sqrt(x) == IF x.kind = "num" THEN Num(x.num, x.den, TRUE) ELSE x

\* Stats.avg
StatsAvg(a) == IF a.size # 0 THEN Quot(a.sum, a.size) ELSE NaN

\* Stats.ssd: max(sum2 - sum**2 / size, 0)
StatsSsd(a) ==
  IF a.size = 0 THEN NaN
  ELSE LET q == Quot(a.sum2 * a.size - a.sum * a.sum, a.size)
       IN  IF q.kind = "num" /\ q.num * q.den < 0 THEN Zero ELSE q

\* Stats.var
StatsVar(a) ==
  IF a.size = 0 THEN NaN
  ELSE IF a.size = 1 THEN Zero
  ELSE LET d == StatsSsd(a)
       IN  IF d.kind = "num" THEN Quot(d.num, d.den * (a.size - 1)) ELSE d

\* Stats.sdv
StatsSdv(a) == Sqrt(StatsVar(a))

\* Stats.rms
StatsRms(a) == IF a.size = 0 THEN Zero ELSE Sqrt(Quot(a.sum2, a.size))

\* The lists of at most n samples.
SampleLists(n) == UNION {[1 .. k -> SampleValues] : k \in 0 .. n}

\* xs, n times over.
RECURSIVE Repeat(_, _)
Repeat(xs, n) == IF n = 0 THEN <<>> ELSE xs \o Repeat(xs, n - 1)

NoStatsOp == <<"none", <<>>, 0>>

IdleStats ==
  /\ acc = StatsEmpty
  /\ accOf = <<>>
  /\ sprev = StatsEmpty
  /\ sprevOf = <<>>
  /\ sop = NoStatsOp

\* Stats() and Stats(xs)
StatsCtor0 ==
  /\ acc' = StatsEmpty
  /\ accOf' = <<>>
  /\ sprev' = acc
  /\ sprevOf' = accOf
  /\ sop' = <<"Stats", <<>>, 0>>

StatsCtor(xs) ==
  /\ acc' = StatsNew(xs)
  /\ accOf' = xs
  /\ sprev' = acc
  /\ sprevOf' = accOf
  /\ sop' = <<"Stats", xs, 1>>

\* acc + Stats(ys)
StatsAddOp(ys) ==
  /\ Len(accOf) + Len(ys) <= MaxTotal
  /\ acc' = StatsAdd(acc, StatsNew(ys))
  /\ accOf' = accOf \o ys
  /\ sprev' = acc
  /\ sprevOf' = accOf
  /\ sop' = <<"add", ys, 0>>

\* acc * n
StatsMulOp(n) ==
  /\ Len(accOf) * n <= MaxTotal
  /\ acc' = StatsMul(acc, n)
  /\ accOf' = Repeat(accOf, n)
  /\ sprev' = acc
  /\ sprevOf' = accOf
  /\ sop' = <<"mul", <<>>, n>>

-----------------------------------------------------------------------------
(* fit_shape.  A returned shape comes with the type of each entry: an entry *)
(* of the argument is the int that was passed, the computed entry has the  *)
(* type numpy gives (num + slice_size - 1) // slice_size.                  *)

\* np.prod of a list of ints.
RECURSIVE Prod(_)
Prod(xs) == IF xs = <<>> THEN 1 ELSE Head(xs) * Prod(Tail(xs))

\* The type of np.prod(xs) for a list of ints: np.array([]) is float64, so
\* the product of the empty list is the float64 1.0.
ProdKind(xs) == IF xs = <<>> THEN "float64" ELSE "int64"

\* [dim for dim in shape if dim != -1]
Known(shape) == SelectSeq(shape, LAMBDA dim : dim # -1)

\* sum(dim == -1 for dim in shape)
NumSentinels(shape) == Cardinality({i \in DOMAIN shape : shape[i] = -1})

ShapeError(msg, shape) ==
  [status |-> "ValueError", msg |-> msg, shape |-> shape,
   kinds |-> [i \in DOMAIN shape |-> "int"]]

ShapeOk(shape, kinds) ==
  [status |-> "ok", msg |-> "", shape |-> shape, kinds |-> kinds]

\* fit_shape without the test for more than one -1.
FitShape_TwoSentinels(shape, num) ==
  IF \E i \in DOMAIN shape : shape[i] # -1 /\ ~(shape[i] > 0)
    THEN ShapeError("non-positive dimensions", shape)
  ELSE IF \E i \in DOMAIN shape : shape[i] = -1
    THEN LET slice_size == Prod(Known(shape))
         IN  ShapeOk([i \in DOMAIN shape |->
                        IF shape[i] = -1
                          THEN (num + slice_size - 1) \div slice_size
                          ELSE shape[i]],
                     [i \in DOMAIN shape |->
                        IF shape[i] = -1 THEN ProdKind(Known(shape)) ELSE "int"])
  ELSE IF Prod(shape) < num
    THEN ShapeError("insufficiently large", shape)
  ELSE ShapeOk(shape, [i \in DOMAIN shape |-> "int"])

\* fit_shape(shape, num)
FitShape(shape, num) ==
  IF \E i \in DOMAIN shape : shape[i] # -1 /\ ~(shape[i] > 0)
    THEN ShapeError("non-positive dimensions", shape)
  ELSE IF NumSentinels(shape) > 1
    THEN ShapeError("more than one -1", shape)
  ELSE IF \E i \in DOMAIN shape : shape[i] = -1
    THEN LET slice_size == Prod(Known(shape))
         IN  ShapeOk([i \in DOMAIN shape |->
                        IF shape[i] = -1
                          THEN (num + slice_size - 1) \div slice_size
                          ELSE shape[i]],
                     [i \in DOMAIN shape |->
                        IF shape[i] = -1 THEN ProdKind(Known(shape)) ELSE "int"])
  ELSE IF Prod(shape) < num
    THEN ShapeError("insufficiently large", shape)
  ELSE ShapeOk(shape, [i \in DOMAIN shape |-> "int"])

\* The shapes passed to fit_shape: valid dimensions, -1, and the non-positive
\* dimensions 0 and -2.
ShapeDims == -2 .. MaxDim

Shapes == UNION {[1 .. k -> ShapeDims] : k \in 0 .. MaxRank}

NoFitCall == <<>>

NoFitOut == [status |-> "none", msg |-> "", shape |-> <<>>, kinds |-> <<>>]

IdleFitShape == fsIn = NoFitCall /\ fsOut = NoFitOut

\* A call of fit_shape.
FitShapeCall(shape, num) ==
  /\ fsIn' = <<shape, num>>
  /\ fsOut' = FitShape(shape, num)

-----------------------------------------------------------------------------
(* assemble_arrays.  An input array is [head, tail, dtype]: its leading    *)
(* dimensions shape[:len(shape)], its trailing ones and its data type.     *)
(* The element of array i at head index p is written [src |-> i, at |-> p] *)
(* (i counted from 0 as in the code), so that the output array shows where *)
(* each of its elements came from.                                         *)

RECURSIVE Sum(_)
Sum(xs) == IF xs = <<>> THEN 0 ELSE Head(xs) + Sum(Tail(xs))

MaxOf(S) == CHOOSE m \in S : \A x \in S : m >= x

\* unravel_index in column-major order.
RECURSIVE Unravel_ColumnMajor(_, _)
Unravel_ColumnMajor(i, shape) ==
  IF shape = <<>> THEN <<>>
  ELSE <<i % shape[1]>> \o Unravel_ColumnMajor(i \div shape[1], Tail(shape))

\* np.unravel_index(i, shape): the coordinates, from 0, of the i-th cell in
\* row-major order.
RECURSIVE Unravel(_, _)
Unravel(i, shape) ==
  IF shape = <<>> THEN <<>>
  ELSE LET n == Len(shape)
       IN  Unravel(i \div shape[n], SubSeq(shape, 1, n - 1)) \o <<i % shape[n]>>

\* head_dims: the leading dimensions of each array, then zeros for the cells
\* left without array; entry j is the cell of row-major index j - 1.
HeadDims(arrays, shape) ==
  [j \in 1 .. Prod(shape) |->
     IF j <= Len(arrays) THEN arrays[j].head ELSE [a \in DOMAIN shape |-> 0]]

\* lengths: for each slice along axis the max over its cells.
SliceLengths(head_dims, shape, axis) ==
  [k \in 1 .. shape[axis] |->
     MaxOf({head_dims[j][axis] :
              j \in {c \in DOMAIN head_dims : Unravel(c - 1, shape)[axis] = k - 1}})]

\* total_length
TotalLength(lengths, spacing) == Sum(lengths) + spacing * (Len(lengths) - 1)

\* round_to_even that lengthens the first slice instead of the last.
RoundToEven_First(lengths, spacing, flag) ==
  IF flag /\ TotalLength(lengths, spacing) % 2 = 1
    THEN [lengths EXCEPT ![1] = @ + 1]
    ELSE lengths

\* if round_to_even[axis] and total_length % 2 == 1: lengths[-1] += 1
RoundToEven(lengths, spacing, flag) ==
  IF flag /\ TotalLength(lengths, spacing) % 2 = 1
    THEN [lengths EXCEPT ![Len(lengths)] = @ + 1]
    ELSE lengths

\* Spacing added after every slice, the last one included.
SpacedLengths_AfterLast(lengths, spacing) ==
  [m \in 1 .. Len(lengths) + 1 |-> IF m = 1 THEN 0 ELSE lengths[m - 1] + spacing]

\* spaced_lengths: 0 in front of lengths, spacing added to all but the last.
SpacedLengths(lengths, spacing) ==
  [m \in 1 .. Len(lengths) + 1 |->
     IF m = 1 THEN 0
     ELSE lengths[m - 1] + (IF m <= Len(lengths) THEN spacing ELSE 0)]

\* cumsum
Cumsum(xs) == [m \in 1 .. Len(xs) |-> Sum(SubSeq(xs, 1, m))]

AlignNames == <<"start", "stop", "center">>

\* offset() with 'stop' and 'start' exchanged.
Offset_Swapped(length, size, align) ==
  LET remainder == length - size
  IN  IF align = "stop" THEN 0
      ELSE IF align = "start" THEN remainder
      ELSE remainder \div 2

\* offset(length, size, align), for a recognized align.
Offset(length, size, align) ==
  LET remainder == length - size
  IN  IF align = "start" THEN 0
      ELSE IF align = "stop" THEN remainder
      ELSE remainder \div 2

\* The index tuples of an array of the given shape.
Indices(shape) ==
  LET top == MaxOf({0} \cup {shape[a] : a \in DOMAIN shape})
  IN  {c \in [DOMAIN shape -> 0 .. top] : \A a \in DOMAIN shape : c[a] < shape[a]}

Background == [src |-> -1, at |-> <<>>]

NoOutcome ==
  [status |-> "none", msg |-> "", shape |-> <<>>, lengths |-> <<>>,
   origins |-> <<>>, starts |-> <<>>, output_shape |-> <<>>, output |-> <<>>]

Raise(status, msg) == [NoOutcome EXCEPT !.status = status, !.msg = msg]

\* The loop over the axes: the lengths of the slices along each axis.
AxisLengths(arrays, shape, spacing, even) ==
  [axis \in DOMAIN shape |->
     RoundToEven(SliceLengths(HeadDims(arrays, shape), shape, axis),
                 spacing[axis], even[axis])]

\* The loop over the axes: the origins of the slices along each axis, and
\* after them the dimension of the output.
AxisOrigins(axis_lengths, spacing) ==
  [axis \in DOMAIN axis_lengths |->
     Cumsum(SpacedLengths(axis_lengths[axis], spacing[axis]))]

\* aligned_start of every array along every axis.
AlignedStarts(arrays, shape, align, axis_lengths, axis_origins) ==
  [i \in DOMAIN arrays |->
     LET coords == Unravel(i - 1, shape)
     IN  [axis \in DOMAIN shape |->
            axis_origins[axis][coords[axis] + 1]
              + Offset(axis_lengths[axis][coords[axis] + 1],
                       arrays[i].head[axis], align[i][axis])]]

\* Array i covers the output index c.
Covers(arrays, starts, i, c) ==
  \A a \in DOMAIN c :
    starts[i][a] <= c[a] /\ c[a] < starts[i][a] + arrays[i].head[a]

\* The output array after the copy loop: np.full(output_shape, background),
\* then each array assigned to its slices in the order of the list, a later
\* assignment overwriting an earlier one.
Output(arrays, starts, output_shape) ==
  [c \in Indices(output_shape) |->
     LET over == {i \in DOMAIN arrays : Covers(arrays, starts, i, c)}
     IN  IF over = {} THEN Background
         ELSE LET i == MaxOf(over)
              IN  [src |-> i - 1, at |-> [a \in DOMAIN c |-> c[a] - starts[i][a]]]]

\* The extents of the input arrays along a grid axis.
Extents == {1, 2}

\* The values of spacing.
Spacings == {0, 1}

\* An array of the given leading dimensions.
ArrayOf(head) == [head |-> head, tail |-> <<>>, dtype |-> "int64"]

\* The grid shapes passed: one axis of any size or -1, or two axes.
GridShapes(G) ==
  IF G = 1 THEN [1 .. 1 -> {-1} \cup (1 .. MaxArrays)] ELSE [1 .. 2 -> {-1, 1, 2}]

\* align, of shape [num, G]: the three names in turn over the arrays and the
\* axes, starting from each of them.
Aligns(num, G) ==
  {[i \in 1 .. num |-> [a \in 1 .. G |-> AlignNames[((i + a + k) % 3) + 1]]] :
     k \in 0 .. 2}

\* A value of S per grid axis; on two axes the two values differ (equal ones
\* are those of the doctest).
PerAxis(G, S) ==
  IF G = 1 THEN [1 .. 1 -> S] ELSE {f \in [1 .. G -> S] : f[1] # f[2]}

Args(arrays, shape, align, spacing, even) ==
  [arrays |-> arrays, shape |-> shape, align |-> align, spacing |-> spacing,
   even |-> even]

\* The doctest of assemble_arrays: five arrays on a grid of shape (2, 3).
DoctestArgs ==
  Args(<<ArrayOf(<<1, 3>>), ArrayOf(<<2, 1>>), ArrayOf(<<1, 1>>),
         ArrayOf(<<1, 2>>), ArrayOf(<<1, 3>>)>>,
       <<2, 3>>, [i \in 1 .. 5 |-> <<"center", "center">>], <<0, 0>>,
       <<FALSE, FALSE>>)

NoArgs == Args(<<>>, <<>>, <<>>, <<>>, <<>>)

IdleAssemble == asIn = NoArgs /\ asOut = NoOutcome

\* The ways one array of a call can differ from what the call accepts.
Defects == SUBSET {"dtype", "tail", "align"}

\* num arrays of shape (1, ..., 1, 3), of which array d has the defects K:
\* another dtype, another trailing dimension.
DefectArrays(num, G, d, K) ==
  [i \in 1 .. num |->
     [head |-> [a \in 1 .. G |-> 1],
      tail |-> IF i = d /\ "tail" \in K THEN <<4>> ELSE <<3>>,
      dtype |-> IF i = d /\ "dtype" \in K THEN "float32" ELSE "int64"]]

\* align 'center', but for array d on axis a an unrecognized name.
DefectAlign(num, G, d, a, K) ==
  [i \in 1 .. num |->
     [x \in 1 .. G |-> IF i = d /\ x = a /\ "align" \in K THEN "middle" ELSE "center"]]

\* The arguments of the call.
InitAssemble ==
  /\ asOut = NoOutcome
  /\ \/ \E G \in 1 .. 2, num \in 1 .. MaxArrays :
          \E heads \in [1 .. num -> [1 .. G -> Extents]], shape \in GridShapes(G),
             align \in Aligns(num, G), spacing \in PerAxis(G, Spacings),
             even \in PerAxis(G, BOOLEAN) :
            asIn = Args([i \in 1 .. num |-> ArrayOf(heads[i])], shape, align,
                        spacing, even)
     \/ asIn = DoctestArgs
     \/ \E G \in 1 .. 2, num \in 1 .. MaxArrays :
          \E d \in 1 .. num, a \in 1 .. G, K \in Defects, shape \in GridShapes(G) :
            asIn = Args(DefectArrays(num, G, d, K), shape,
                        DefectAlign(num, G, d, a, K), [x \in 1 .. G |-> 0],
                        [x \in 1 .. G |-> FALSE])
     \/ \E G \in 1 .. 2 :
          \E shape \in GridShapes(G) :
            asIn = Args(<<>>, shape, <<>>, [x \in 1 .. G |-> 0],
                        [x \in 1 .. G |-> FALSE])

\* The result of a call that returns.
Returned(shape, axis_lengths, axis_origins, starts, output_shape, output) ==
  [status |-> "ok", msg |-> "", shape |-> shape, lengths |-> axis_lengths,
   origins |-> axis_origins, starts |-> starts, output_shape |-> output_shape,
   output |-> output]

\* The call assemble_arrays(arrays, shape, align=, spacing=, round_to_even=),
\* statement by statement; each \E binds the value of one local variable.
Assemble ==
  /\ asOut.status = "none"
  /\ UNCHANGED asIn
  /\ LET arrays == asIn.arrays
         num == Len(arrays)
     IN
     IF num = 0
       THEN asOut' = Raise("ValueError", "There must be at least one input array")
     ELSE \E fit \in {FitShape(asIn.shape, num)} :
       IF fit.status # "ok"
         THEN asOut' = Raise("ValueError", fit.msg)
       ELSE IF \E i \in DOMAIN arrays : arrays[i].dtype # arrays[1].dtype
         THEN asOut' = Raise("ValueError", "different types")
       ELSE IF \E i \in DOMAIN arrays : arrays[i].tail # arrays[1].tail
         THEN asOut' = Raise("ValueError", "Shapes do not all end in tail_dims")
       ELSE IF fit.shape = <<>> \/ \E a \in DOMAIN fit.shape : fit.kinds[a] = "float64"
         \* [[0] * len(shape)] * (np.prod(shape) - num) with a float64 product
         THEN asOut' = Raise("TypeError", "can't multiply sequence by non-int of type 'numpy.float64'")
       ELSE
         \E axis_lengths \in {AxisLengths(arrays, fit.shape, asIn.spacing, asIn.even)} :
         \E axis_origins \in {AxisOrigins(axis_lengths, asIn.spacing)} :
         \E output_shape \in {[axis \in DOMAIN fit.shape |->
                                 axis_origins[axis][fit.shape[axis] + 1]]} :
           IF \E i \in DOMAIN arrays, a \in DOMAIN fit.shape :
                asIn.align[i][a] \notin Range(AlignNames)
             THEN asOut' = Raise("ValueError", "Alignment is not recognized")
           ELSE
             \E starts \in {AlignedStarts(arrays, fit.shape, asIn.align,
                                          axis_lengths, axis_origins)} :
               IF \E i \in DOMAIN arrays, a \in DOMAIN fit.shape :
                    \/ starts[i][a] < 0
                    \/ starts[i][a] + arrays[i].head[a] > output_shape[a]
                 THEN asOut' = Raise("ValueError", "could not broadcast input array")
                 ELSE asOut' = Returned(fit.shape, axis_lengths, axis_origins, starts,
                                        output_shape,
                                        Output(arrays, starts, output_shape))

-----------------------------------------------------------------------------
(* grid_from_string and string_from_grid.  A string is the sequence of the *)
(* code points of its characters, a 2D array the sequence of its rows.     *)

\* ord('\n')
Newline == 10

\* The characters of the strings: '#', '.', 'A'.
Chars == {35, 46, 65}

\* The integers the characters are mapped to.
GridValues == {0, 1, 11}

\* s.lstrip('\n')
RECURSIVE LStrip(_)
LStrip(s) ==
  IF s # <<>> /\ Head(s) = Newline THEN LStrip(Tail(s)) ELSE s

\* s.strip('\n')
StripNewlines(s) == Reverse(LStrip(Reverse(LStrip(s))))

\* s.splitlines(), for a string whose only line boundary is '\n': the pieces
\* between the newlines, without an empty piece after a final newline.
RECURSIVE SplitLines(_, _)
SplitLines(s, line) ==
  IF s = <<>> THEN (IF line = <<>> THEN <<>> ELSE <<line>>)
  ELSE IF Head(s) = Newline THEN <<line>> \o SplitLines(Tail(s), <<>>)
  ELSE SplitLines(Tail(s), Append(line, Head(s)))

\* '\n'.join(lines)
RECURSIVE JoinLines(_)
JoinLines(lines) ==
  IF lines = <<>> THEN <<>>
  ELSE IF Len(lines) = 1 THEN lines[1]
  ELSE lines[1] \o <<Newline>> \o JoinLines(Tail(lines))

\* No mapping passed (None), or the mapping passed.
NoMapping == [given |-> FALSE, map |-> <<>>]

Mapping(f) == [given |-> TRUE, map |-> f]

GridError(status) == [status |-> status, kind |-> "", rows |-> <<>>]

\* np_int_from_ch(a, int_from_ch): lookup = np.zeros(a.max() + 1), then
\* lookup[ord(ch)] = value for every item of the mapping, then lookup[a].
NpIntFromCh(rows, int_from_ch) ==
  LET size == MaxOf({rows[y][x] : y \in DOMAIN rows, x \in DOMAIN rows[1]}) + 1
  IN  IF \E ch \in DOMAIN int_from_ch : ch >= size
        THEN GridError("IndexError")
        ELSE [status |-> "ok", kind |-> "int",
              rows |-> [y \in DOMAIN rows |->
                          [x \in DOMAIN rows[y] |->
                             IF rows[y][x] \in DOMAIN int_from_ch
                               THEN int_from_ch[rows[y][x]] ELSE 0]]]

\* grid_from_string(s, int_from_ch): each line is written into a row of
\* width len(lines[0]), cut or filled with NUL to that width.
GridFromString(s, int_from_ch) ==
  LET lines == SplitLines(StripNewlines(s), <<>>)
  IN  IF lines = <<>> THEN GridError("IndexError")
      ELSE LET width == Len(lines[1])
               rows == [y \in DOMAIN lines |->
                          [x \in 1 .. width |->
                             IF x <= Len(lines[y]) THEN lines[y][x] ELSE 0]]
           IN  IF ~int_from_ch.given
                 THEN [status |-> "ok", kind |-> "U1", rows |-> rows]
               ELSE IF width = 0 THEN GridError("ValueError")
               ELSE NpIntFromCh(rows, int_from_ch.map)

\* ''.join(row) for a row of characters: a NUL element is the empty string.
JoinRow(row) == SelectSeq(row, LAMBDA ch : ch # 0)

\* string_from_grid(grid, ch_from_int)
StringFromGrid(rows, ch_from_int) ==
  IF ch_from_int.given
       /\ \E y \in DOMAIN rows : \E x \in DOMAIN rows[y] :
            rows[y][x] \notin DOMAIN ch_from_int.map
    THEN [status |-> "KeyError", text |-> <<>>]
    ELSE [status |-> "ok",
          text |-> JoinLines([y \in DOMAIN rows |->
                                IF ch_from_int.given
                                  THEN [x \in DOMAIN rows[y] |->
                                          ch_from_int.map[rows[y][x]]]
                                  ELSE JoinRow(rows[y])])]

\* The inverse of an injective mapping.
Inverse(m) ==
  IF m.given
    THEN Mapping([v \in Range(m.map) |-> CHOOSE ch \in DOMAIN m.map : m.map[ch] = v])
    ELSE NoMapping

\* The widths of the lines.
GridWidths == {1, 2}

\* The strings passed: lines of one width, with or without a newline in front
\* and at the end.
GridString(rows, lead, trail) ==
  [i \in 1 .. lead |-> Newline] \o JoinLines(rows) \o [i \in 1 .. trail |-> Newline]

\* The injective mappings from characters to integers that cover the
\* characters of s.
CoveringMappings(s) ==
  {Mapping(f) : f \in
     {g \in UNION {[D -> GridValues] : D \in SUBSET Chars} :
        /\ Range(s) \ {Newline} \subseteq DOMAIN g
        /\ \A c \in DOMAIN g, d \in DOMAIN g : g[c] = g[d] => c = d}}

NoGrid == GridError("none")

NoText == [status |-> "none", text |-> <<>>]

NoGridArgs == [s |-> <<>>, int_from_ch |-> NoMapping]

IdleGrid == gsIn = NoGridArgs /\ gsOut = [grid |-> NoGrid, text |-> NoText]

\* The arguments of the round trip.
InitGrid ==
  /\ gsOut = [grid |-> NoGrid, text |-> NoText]
  /\ \E h \in 1 .. MaxHeight, w \in GridWidths, lead \in 0 .. 1, trail \in 0 .. 1 :
       \E rows \in [1 .. h -> [1 .. w -> Chars]] :
         \E m \in CoveringMappings(GridString(rows, lead, trail)) \cup {NoMapping} :
           gsIn = [s |-> GridString(rows, lead, trail), int_from_ch |-> m]

\* g = grid_from_string(s, int_from_ch)
GridFromStringCall ==
  /\ gsOut.grid.status = "none"
  /\ gsOut' = [gsOut EXCEPT !.grid = GridFromString(gsIn.s, gsIn.int_from_ch)]
  /\ UNCHANGED gsIn

\* string_from_grid(g, ch_from_int), with the inverse mapping.
StringFromGridCall ==
  /\ gsOut.grid.status = "ok" /\ gsOut.text.status = "none"
  /\ gsOut' = [gsOut EXCEPT
                 !.text = StringFromGrid(gsOut.grid.rows, Inverse(gsIn.int_from_ch))]
  /\ UNCHANGED gsIn

-----------------------------------------------------------------------------
(* check_eq, of hhoppe_tools and of hhoppe_utils.                          *)
(* A value is an integer or a numpy array of integers of one axis.         *)

IntValue(n) == [kind |-> "int", v |-> n]

ArrayValue(elems) == [kind |-> "ndarray", v |-> elems]

\* isinstance(a, np.ndarray)
IsArray(a) == a.kind = "ndarray"

\* a[i] and b[i] of a comparison of array a with b: a scalar b is broadcast.
ElementOf(b, i) == IF IsArray(b) THEN b.v[i] ELSE b.v

\* np.any(a != b) for an array a.
AnyDiffer(a, b) == \E i \in DOMAIN a.v : a.v[i] # ElementOf(b, i)

\* np.all(a == b) for an array a.
AllEqual(a, b) == \A i \in DOMAIN a.v : a.v[i] = ElementOf(b, i)

\* a != b for an a that is no array (b is no array either).
Differ(a, b) == a.v # b.v

\* f'{a!r} == {b!r}': the texts of the two values around ' == '.
ReprEq(a, b) == <<a, " == ", b>>

Returns == [status |-> "ok", message |-> <<>>]

\* hhoppe_utils.check(condition, message)
Check(condition, message) ==
  IF condition THEN Returns
  ELSE [status |-> "RuntimeError", message |-> <<"Check fails: ">> \o message]

\* hhoppe_utils.check_eq(a, b), with message=None.
UtilsCheckEq(a, b) ==
  IF IsArray(a) THEN Check(AllEqual(a, b), ReprEq(a, b))
  ELSE Check(~Differ(a, b), ReprEq(a, b))

\* hhoppe_tools.check_eq(a, b)
CheckEq(a, b) ==
  LET check_fails == IF IsArray(a) THEN AnyDiffer(a, b) ELSE Differ(a, b)
  IN  IF check_fails
        THEN [status |-> "AssertionError", message |-> ReprEq(a, b)]
        ELSE Returns

\* The values passed: integers and arrays of up to MaxArrayLen elements.
CheckInts == {IntValue(n) : n \in 0 .. MaxCheckValue}

CheckArrays ==
  {ArrayValue(e) : e \in UNION {[1 .. n -> 0 .. 1] : n \in 0 .. MaxArrayLen}}

\* The pairs passed: two integers, an array and an integer, or two arrays of
\* one length.
CheckPairs ==
  (CheckInts \X CheckInts) \cup (CheckArrays \X CheckInts)
    \cup {p \in CheckArrays \X CheckArrays : Len(p[1].v) = Len(p[2].v)}

NoCheck == [impl |-> "none", a |-> IntValue(0), b |-> IntValue(0), out |-> Returns]

IdleCheckEq == ce = NoCheck

\* hhoppe_tools.check_eq(a, b) is called.
ToolsCheckEqCall(a, b) ==
  ce' = [impl |-> "hhoppe_tools", a |-> a, b |-> b, out |-> CheckEq(a, b)]

\* hhoppe_utils.check_eq(a, b) is called.
UtilsCheckEqCall(a, b) ==
  ce' = [impl |-> "hhoppe_utils", a |-> a, b |-> b, out |-> UtilsCheckEq(a, b)]

-----------------------------------------------------------------------------
(* extended_gcd and modular_inverse.                                       *)

\* The locals of extended_gcd(a, b) before its loop; fn is the function that
\* was called, a0 and b0 are its arguments.
StartGcd(fn, a, b) ==
  [fn |-> fn, a0 |-> a, b0 |-> b, pc |-> "loop",
   a |-> a, b |-> b, prev_x |-> 1, x |-> 0, prev_y |-> 0, y |-> 1,
   status |-> "none", ret |-> <<>>]

\* A mutant of GcdIteration: prev_x and prev_y are not updated.
GcdIteration_KeepPrev(e) ==
  LET q == e.a \div e.b
  IN  [e EXCEPT !.x = e.prev_x - q * e.x,
                !.y = e.prev_y - q * e.y,
                !.a = e.b, !.b = e.a % e.b]

\* One iteration of the while-loop of extended_gcd.
GcdIteration(e) ==
  LET q == e.a \div e.b
  IN  [e EXCEPT !.x = e.prev_x - q * e.x, !.prev_x = e.x,
                !.y = e.prev_y - q * e.y, !.prev_y = e.y,
                !.a = e.b, !.b = e.a % e.b]

\* The arguments of the doctests: extended_gcd(29, 71), modular_inverse(29, 71).
DoctestGcdArgs == <<29, 71>>

NoGcd == [StartGcd("none", 0, 0) EXCEPT !.pc = "idle"]

IdleGcd == eg = NoGcd

\* extended_gcd(a, b) or modular_inverse(a, b) is called with a >= 0, b >= 0.
InitGcd ==
  \E fn \in {"extended_gcd", "modular_inverse"} :
    \/ \E a \in 0 .. MaxGcdArg, b \in 0 .. MaxGcdArg : eg = StartGcd(fn, a, b)
    \/ eg = StartGcd(fn, DoctestGcdArgs[1], DoctestGcdArgs[2])

\* while b: the body of the loop.
GcdLoop ==
  /\ eg.pc = "loop" /\ eg.b # 0
  /\ eg' = GcdIteration(eg)

\* The loop has ended: x, y = prev_x, prev_y; return a, x, y. The caller is
\* done, or modular_inverse goes on with the tuple.
GcdReturn ==
  /\ eg.pc = "loop" /\ eg.b = 0
  /\ eg' = [eg EXCEPT !.x = eg.prev_x, !.y = eg.prev_y,
                      !.ret = <<eg.a, eg.prev_x, eg.prev_y>>,
                      !.pc = IF eg.fn = "extended_gcd" THEN "done" ELSE "check",
                      !.status = IF eg.fn = "extended_gcd" THEN "ok" ELSE "none"]

\* modular_inverse after extended_gcd: check_eq(gcd, 1); return x % b.
ModularInverseReturn ==
  /\ eg.pc = "check"
  /\ LET checked == CheckEq(IntValue(eg.ret[1]), IntValue(1))
     IN  eg' = [eg EXCEPT
                  !.pc = "done",
                  !.status = IF checked.status # "ok" THEN checked.status
                             ELSE IF eg.b0 = 0 THEN "ZeroDivisionError"
                             ELSE "ok",
                  !.ret = IF checked.status = "ok" /\ eg.b0 # 0
                            THEN <<eg.ret[2] % eg.b0>> ELSE <<>>]

-----------------------------------------------------------------------------
(* discrete_binary_search.                                                 *)

\* The values feval takes, and y_desired.
FevalValues == 0 .. 2

\* A mutant of SearchIteration: the comparison is strict.
SearchIteration_Strict(b) ==
  LET xm == (b.xl + b.xh) \div 2
      ym == b.feval[xm]
  IN  IF b.y_desired > ym THEN [b EXCEPT !.xl = xm] ELSE [b EXCEPT !.xh = xm]

\* One iteration of the while-loop: xm = (xl + xh) // 2; ym = feval(xm).
SearchIteration(b) ==
  LET xm == (b.xl + b.xh) \div 2
      ym == b.feval[xm]
  IN  IF b.y_desired >= ym THEN [b EXCEPT !.xl = xm] ELSE [b EXCEPT !.xh = xm]

\* discrete_binary_search(feval, xl, xh, y_desired) has been called.
StartSearch(feval, xl, xh, y_desired) ==
  [feval |-> feval, xl0 |-> xl, xh0 |-> xh, y_desired |-> y_desired,
   xl |-> xl, xh |-> xh, pc |-> "assert", status |-> "none", ret |-> 0]

NoSearch == [StartSearch([x \in {0} |-> 0], 0, 0, 0) EXCEPT !.pc = "idle"]

IdleSearch == bs = NoSearch

\* The calls made: every function on xl .. xh, for xl <= xh.
InitSearch ==
  \E xl \in -MaxX .. MaxX :
    \E xh \in xl .. MaxX :
      \E feval \in [xl .. xh -> FevalValues], y_desired \in FevalValues :
        bs = StartSearch(feval, xl, xh, y_desired)

\* assert xl < xh
SearchAssert ==
  /\ bs.pc = "assert"
  /\ bs' = IF bs.xl < bs.xh
             THEN [bs EXCEPT !.pc = "loop"]
             ELSE [bs EXCEPT !.pc = "done", !.status = "AssertionError"]

\* while xh - xl > 1: the body of the loop.
SearchLoop ==
  /\ bs.pc = "loop" /\ bs.xh - bs.xl > 1
  /\ bs' = SearchIteration(bs)

\* return xl
SearchReturn ==
  /\ bs.pc = "loop" /\ ~(bs.xh - bs.xl > 1)
  /\ bs' = [bs EXCEPT !.pc = "done", !.status = "ok", !.ret = bs.xl]

-----------------------------------------------------------------------------
(* Specifications.                                                         *)

IdleTS == graph = EmptyGraph /\ call = NoCall /\ out = NoOut

InitUnionFind == InitUF /\ IdleTS /\ IdleStats /\ IdleFitShape /\ IdleAssemble /\ IdleGrid /\ IdleCheckEq /\ IdleGcd /\ IdleSearch

NextUnionFind ==
  \/ \E a \in Elems, b \in Elems :
       Union(a, b) /\ UNCHANGED <<tsvars, stvars, fsvars, asvars, gsvars, cevars, egvars, bsvars>>
  \/ \E a \in Elems : FindOp(a) /\ UNCHANGED <<tsvars, stvars, fsvars, asvars, gsvars, cevars, egvars, bsvars>>
  \/ \E a \in Elems, b \in Elems :
       Same(a, b) /\ UNCHANGED <<tsvars, stvars, fsvars, asvars, gsvars, cevars, egvars, bsvars>>

SpecUnionFind == InitUnionFind /\ [][NextUnionFind]_vars

InitTopSort == InitTS /\ InitUF /\ IdleStats /\ IdleFitShape /\ IdleAssemble /\ IdleGrid /\ IdleCheckEq /\ IdleGcd /\ IdleSearch

NextTopSort ==
  \E cycle_check \in BOOLEAN :
    Sort(cycle_check) /\ UNCHANGED <<ufvars, stvars, fsvars, asvars, gsvars, cevars, egvars, bsvars>>

SpecTopSort == InitTopSort /\ [][NextTopSort]_vars

InitStats == IdleStats /\ InitUF /\ IdleTS /\ IdleFitShape /\ IdleAssemble /\ IdleGrid /\ IdleCheckEq /\ IdleGcd /\ IdleSearch

NextStats ==
  \/ StatsCtor0 /\ UNCHANGED <<ufvars, tsvars, fsvars, asvars, gsvars, cevars, egvars, bsvars>>
  \/ \E xs \in SampleLists(MaxSamples) :
       StatsCtor(xs) /\ UNCHANGED <<ufvars, tsvars, fsvars, asvars, gsvars, cevars, egvars, bsvars>>
  \/ \E ys \in SampleLists(MaxSamples) :
       StatsAddOp(ys) /\ UNCHANGED <<ufvars, tsvars, fsvars, asvars, gsvars, cevars, egvars, bsvars>>
  \/ \E n \in 0 .. MaxRepeat :
       StatsMulOp(n) /\ UNCHANGED <<ufvars, tsvars, fsvars, asvars, gsvars, cevars, egvars, bsvars>>

SpecStats == InitStats /\ [][NextStats]_vars

InitFitShape == IdleFitShape /\ InitUF /\ IdleTS /\ IdleStats /\ IdleAssemble /\ IdleGrid /\ IdleCheckEq /\ IdleGcd /\ IdleSearch

NextFitShape ==
  \E shape \in Shapes, num \in 0 .. MaxNum :
    FitShapeCall(shape, num) /\ UNCHANGED <<ufvars, tsvars, stvars, asvars, gsvars, cevars, egvars, bsvars>>

SpecFitShape == InitFitShape /\ [][NextFitShape]_vars

InitAssembleArrays == InitAssemble /\ InitUF /\ IdleTS /\ IdleStats /\ IdleFitShape /\ IdleGrid /\ IdleCheckEq /\ IdleGcd /\ IdleSearch

NextAssembleArrays == Assemble /\ UNCHANGED <<ufvars, tsvars, stvars, fsvars, gsvars, cevars, egvars, bsvars>>

SpecAssembleArrays == InitAssembleArrays /\ [][NextAssembleArrays]_vars

InitGridRoundTrip ==
  InitGrid /\ InitUF /\ IdleTS /\ IdleStats /\ IdleFitShape /\ IdleAssemble /\ IdleCheckEq /\ IdleGcd /\ IdleSearch

NextGridRoundTrip ==
  \/ GridFromStringCall /\ UNCHANGED <<ufvars, tsvars, stvars, fsvars, asvars, cevars, egvars, bsvars>>
  \/ StringFromGridCall /\ UNCHANGED <<ufvars, tsvars, stvars, fsvars, asvars, cevars, egvars, bsvars>>

SpecGridRoundTrip == InitGridRoundTrip /\ [][NextGridRoundTrip]_vars

InitCheckEq ==
  IdleCheckEq /\ InitUF /\ IdleTS /\ IdleStats /\ IdleFitShape /\ IdleAssemble
    /\ IdleGrid /\ IdleGcd /\ IdleSearch

NextCheckEq ==
  \/ \E p \in CheckPairs :
       ToolsCheckEqCall(p[1], p[2])
         /\ UNCHANGED <<ufvars, tsvars, stvars, fsvars, asvars, gsvars, egvars, bsvars>>
  \/ \E p \in CheckPairs :
       UtilsCheckEqCall(p[1], p[2])
         /\ UNCHANGED <<ufvars, tsvars, stvars, fsvars, asvars, gsvars, egvars, bsvars>>

SpecCheckEq == InitCheckEq /\ [][NextCheckEq]_vars

InitExtendedGcd ==
  InitGcd /\ InitUF /\ IdleTS /\ IdleStats /\ IdleFitShape /\ IdleAssemble
    /\ IdleGrid /\ IdleCheckEq /\ IdleSearch

NextExtendedGcd ==
  \/ GcdLoop
       /\ UNCHANGED <<ufvars, tsvars, stvars, fsvars, asvars, gsvars, cevars, bsvars>>
  \/ GcdReturn
       /\ UNCHANGED <<ufvars, tsvars, stvars, fsvars, asvars, gsvars, cevars, bsvars>>
  \/ ModularInverseReturn
       /\ UNCHANGED <<ufvars, tsvars, stvars, fsvars, asvars, gsvars, cevars, bsvars>>

\* A call that has been made keeps running: the interpreter executes the next
\* statement of the function as long as there is one.
SpecExtendedGcd ==
  InitExtendedGcd /\ [][NextExtendedGcd]_vars /\ WF_vars(NextExtendedGcd)

InitBinarySearch ==
  InitSearch /\ InitUF /\ IdleTS /\ IdleStats /\ IdleFitShape /\ IdleAssemble
    /\ IdleGrid /\ IdleCheckEq /\ IdleGcd

NextBinarySearch ==
  \/ SearchAssert
       /\ UNCHANGED <<ufvars, tsvars, stvars, fsvars, asvars, gsvars, cevars, egvars>>
  \/ SearchLoop
       /\ UNCHANGED <<ufvars, tsvars, stvars, fsvars, asvars, gsvars, cevars, egvars>>
  \/ SearchReturn
       /\ UNCHANGED <<ufvars, tsvars, stvars, fsvars, asvars, gsvars, cevars, egvars>>

\* As for extended_gcd: a call that has been made keeps running.
SpecBinarySearch ==
  InitBinarySearch /\ [][NextBinarySearch]_vars /\ WF_vars(NextBinarySearch)

-----------------------------------------------------------------------------
(* Properties of UnionFind, checked under SpecUnionFind.                   *)

\* The n-th parent of k in dict r; an element that is no key has no parent but
\* itself.
RECURSIVE NthParent(_, _, _)
NthParent(r, k, n) ==
  IF n = 0 THEN k
  ELSE NthParent(r, IF k \in DOMAIN r THEN r[k] ELSE k, n - 1)

\* No parent chain of r comes back to an element that is not its own parent.
NoCycle(r) ==
  \A k \in DOMAIN r :
    \A n \in 1 .. NumElems : NthParent(r, k, n) = k => r[k] = k

\* C1: after any sequence of union, find and same calls on a fresh UnionFind,
\* same(a, b) returns True exactly when a and b are connected through the
\* pairs passed to union (a == b included): for the call just made and for
\* every call that could be made next.
C1_SameIffConnected ==
  /\ op[1] = "same" => (ret <=> <<op[2], op[3]>> \in conn)
  /\ \A a \in Elems, b \in Elems :
       LET s == SameRep(rep, a, b)
       IN  s.done /\ (s.ret <=> <<a, b>> \in conn)

\* C1 witness: same(a, c) has returned True for stored a # c neither of which
\* was the parent of the other: they are joined through a third element.
C1_Witness ==
  /\ op[1] = "same" /\ op[2] # op[3] /\ ret = TRUE
  /\ op[2] \in DOMAIN prev /\ op[3] \in DOMAIN prev
  /\ prev[op[2]] # op[3] /\ prev[op[3]] # op[2]

\* C2: find(x) for an x that is not a key of the parent map returns x and
\* leaves the map as it was (x is not inserted), on a fresh structure too.
C2_FindUnseen ==
  /\ (op[1] = "find" /\ op[2] \notin DOMAIN prev) => (ret = op[2] /\ rep = prev)
  /\ \A x \in Elems \ DOMAIN rep :
       Find(rep, x) = [rep |-> rep, ret |-> x, done |-> TRUE]

\* C2 witness: find(x) has returned for an x that was no key of a map that
\* holds other keys, and x is still no key.
C2_Witness ==
  /\ op[1] = "find" /\ op[2] \notin DOMAIN prev /\ prev # EmptyDict
  /\ ret = op[2] /\ op[2] \notin DOMAIN rep

\* C3: union(a, b) merges b's class into a's: with r the value of find(a)
\* before the call, afterwards find(a) = r, find(b) = r, and every element of
\* a's or b's class before has representative r.
C3_UnionMergesIntoA ==
  op[1] = "union" =>
    LET r == Find(prev, op[2]).ret
        rb == Find(prev, op[3]).ret
    IN  /\ Find(rep, op[2]).ret = r
        /\ Find(rep, op[3]).ret = r
        /\ \A e \in Elems :
             Find(prev, e).ret \in {r, rb} => Find(rep, e).ret = r

\* C3 witness: a union has joined two different classes, where b was not the
\* representative of its class, and b's old representative now has a's.
C3_Witness ==
  /\ op[1] = "union"
  /\ LET r == Find(prev, op[2]).ret
         rb == Find(prev, op[3]).ret
     IN  /\ r # rb /\ rb # op[3]
         /\ Find(rep, rb).ret = r /\ Find(rep, op[3]).ret = r

\* C4: in every reachable state the parent map has no cycle but the self-loops
\* at roots: find returns for every element, and returns a root r with
\* find(r) == r.
C4_NoCycleFindTerminates ==
  /\ NoCycle(rep)
  /\ \A x \in Elems :
       LET f == Find(rep, x)
       IN  /\ f.done
           /\ Find(f.rep, f.ret) = [rep |-> f.rep, ret |-> f.ret, done |-> TRUE]
           /\ Find(rep, f.ret).ret = f.ret

\* C4 witness: the map holds a chain of two parent steps that find has not
\* compressed yet.
C4_Witness ==
  \E k \in DOMAIN rep :
    /\ rep[k] # k /\ rep[k] \in DOMAIN rep /\ rep[rep[k]] # rep[k]
    /\ Find(rep, k).ret = rep[rep[k]]

\* C5 as claimed: the representative of every stored key is itself stored in
\* the parent map and maps to itself.
C5_RootsStored ==
  \A k \in DOMAIN rep :
    LET r == Find(rep, k).ret
    IN  r \in DOMAIN rep /\ rep[r] = r

\* C5 as amended: the representative of every stored key either is not stored
\* in the parent map or maps to itself, and a find or same that reaches it
\* through a stored key stores it, mapped to itself.
C5_StoredRootsSelfMapped ==
  /\ \A k \in DOMAIN rep :
       LET f == Find(rep, k)
       IN  /\ f.done
           /\ f.ret \in DOMAIN rep => rep[f.ret] = f.ret
           /\ f.ret \in DOMAIN f.rep /\ f.rep[f.ret] = f.ret
  /\ (op[1] = "find" /\ op[2] \in DOMAIN prev) =>
       (ret \in DOMAIN rep /\ rep[ret] = ret)
  /\ (op[1] = "same" /\ op[2] \in DOMAIN prev) =>
       LET r == Find(prev, op[2]).ret IN r \in DOMAIN rep /\ rep[r] = r

\* C5 witness: find has returned, for a stored key, a root that was not stored
\* before the call and is stored now.
C5_Witness ==
  /\ op[1] = "find" /\ op[2] \in DOMAIN prev
  /\ ret \notin DOMAIN prev /\ ret \in DOMAIN rep /\ rep[ret] = ret

\* The representative find returns for x on dict r.
Representative(r, x) == Find(r, x).ret

\* The call just made was a find or a same.
Lookup == op[1] \in {"find", "same"}

\* C24: path compression is not observable. Every find(x) and same(x, y)
\* made leaves the representative of every element as it was before the
\* call, and with it the partition into classes, so the representative find
\* returned is what find returns again for the same element and for itself
\* as long as no union is made.
C24_CompressionNotObservable ==
  /\ Lookup =>
       /\ \A z \in Elems : Representative(rep, z) = Representative(prev, z)
       /\ conn = {<<y, z>> \in Elems \X Elems :
                    Representative(prev, y) = Representative(prev, z)}
  /\ op[1] = "find" =>
       Representative(rep, op[2]) = ret /\ Representative(rep, ret) = ret

\* C24 witness: a find has compressed a path: a key that pointed at another
\* key now points at the root the call returned.
C24_Witness ==
  /\ op[1] = "find"
  /\ \E k \in DOMAIN prev :
       prev[k] # k /\ prev[k] # ret /\ rep[k] = ret /\ rep[prev[k]] = ret

\* The representatives of those arguments of the call just made that were
\* keys before it.
RootsReached == {Representative(prev, x) : x \in {op[2], op[3]} \cap DOMAIN prev}

\* C25 as claimed: the set of keys of the parent map after find(x), and after
\* same(x, y), is the set before the call.
C25_KeysUnchanged == Lookup => DOMAIN rep = DOMAIN prev

\* C25 as amended: after find(x) and same(x, y) the keys are the keys before
\* the call and the representative of each argument that was a key, which is
\* stored mapped to itself; a key of before keeps its parent or points at its
\* representative; an argument that was no key is not stored.
C25_FindStoresOnlyRoot ==
  Lookup =>
    /\ DOMAIN rep = DOMAIN prev \cup RootsReached
    /\ \A k \in DOMAIN rep \ DOMAIN prev : rep[k] = k
    /\ \A k \in DOMAIN prev :
         rep[k] = prev[k] \/ rep[k] = Representative(prev, k)
    /\ \A x \in {op[2], op[3]} \ DOMAIN prev :
         x \in DOMAIN rep => x \in RootsReached

\* C25 witness: same(x, y) has stored one key that was not stored before, the
\* representative of x and y, and has redirected a key of before to it.
C25_Witness ==
  /\ op[1] = "same" /\ ret = TRUE /\ op[2] # op[3]
  /\ \E r \in Elems \ DOMAIN prev :
       /\ DOMAIN rep = DOMAIN prev \cup {r} /\ rep[r] = r
       /\ \E k \in DOMAIN prev : prev[k] # r /\ rep[k] = r

-----------------------------------------------------------------------------
(* Properties of topological_sort, checked under SpecTopSort.              *)

\* The directed edges (u, v) of g: v is listed in graph[u].
Edges(g) == {<<u, v>> \in KeySet(g) \X Nodes : v \in Range(g.deps[u])}

\* Every node of g appears as a key.
AllKeys(g) == AllDependents(g) \subseteq KeySet(g)

\* The nodes listed by the nodes of S.
Listed(g, S) == UNION {Range(g.deps[k]) : k \in S \cap KeySet(g)}

\* The nodes reached from S by at most n further edges.
RECURSIVE Expand(_, _, _)
Expand(g, S, n) == IF n = 0 THEN S ELSE Expand(g, S \cup Listed(g, S), n - 1)

\* The nodes reached from u by one edge or more.
Descendants(g, u) == Expand(g, Listed(g, {u}), NumNodes)

\* g has no directed cycle (self-loops are cycles).
Acyclic(g) == \A u \in KeySet(g) : u \notin Descendants(g, u)

\* u occurs before v in list s.
Before(s, u, v) == \E i \in DOMAIN s, j \in DOMAIN s : s[i] = u /\ s[j] = v /\ i < j

Called == call[1] = "topological_sort"

\* The graph {1: [2], 2: [3], 3: []}.
ChainGraph == [keys |-> <<1, 2, 3>>, deps |-> <<(<<2>>), (<<3>>), (<<>>)>>]

\* C6: for every acyclic graph in which every node is a key, topological_sort
\* returns a list in which u is before v for every edge (u, v); the graph
\* {2: [3], 3: [4], 1: [2], 4: []} gives [1, 2, 3, 4] and {1: [2], 2: [3],
\* 3: []} gives [1, 2, 3].
C6_EdgeSourceFirst ==
  /\ (Called /\ AllKeys(graph) /\ Acyclic(graph)) =>
       /\ out.status = "ok"
       /\ \A e \in Edges(graph) : Before(out.result, e[1], e[2])
  /\ (Called /\ graph = DoctestGraph1) => out.result = <<1, 2, 3, 4>>
  /\ (Called /\ graph = ChainGraph) => out.result = <<1, 2, 3>>

\* C6 witness: the doctest graph has been sorted into [1, 2, 3, 4].
C6_Witness ==
  Called /\ graph = DoctestGraph1 /\ out.status = "ok" /\ out.result = <<1, 2, 3, 4>>

\* C7 as claimed: for every edge (u, v) of the input graph, v precedes u in
\* the list returned; stated for the graphs that have such an order (acyclic,
\* every node a key).
C7_DependencyFirst ==
  (Called /\ out.status = "ok" /\ AllKeys(graph) /\ Acyclic(graph)) =>
    \A e \in Edges(graph) : Before(out.result, e[2], e[1])

\* C7 as amended: for every edge (u, v) with u # v, u precedes v, and v does
\* not precede u, in the list returned for an acyclic graph in which every node
\* is a key, and in every list returned by a call with cycle_check=True.
C7_DependencyLast ==
  (Called /\ out.status = "ok" /\ (call[2] \/ (AllKeys(graph) /\ Acyclic(graph)))) =>
    \A e \in Edges(graph) :
      e[1] # e[2] =>
        Before(out.result, e[1], e[2]) /\ ~Before(out.result, e[2], e[1])

\* C7 witness: a list has been returned for a graph with a node that two other
\* nodes list, and each of them is before it.
C7_Witness ==
  /\ Called /\ out.status = "ok" /\ AllKeys(graph) /\ Acyclic(graph)
  /\ \E u \in KeySet(graph), w \in KeySet(graph), v \in KeySet(graph) :
       /\ u # w /\ <<u, v>> \in Edges(graph) /\ <<w, v>> \in Edges(graph)
       /\ Before(out.result, u, v) /\ Before(out.result, w, v)

\* C8: for every acyclic graph in which every node is a key, the list returned
\* is a permutation of the node set: every node once and nothing else.
C8_Permutation ==
  (Called /\ AllKeys(graph) /\ Acyclic(graph)) =>
    /\ out.status = "ok"
    /\ Range(out.result) = KeySet(graph)
    /\ Len(out.result) = Cardinality(KeySet(graph))

\* C8 witness: a list of four nodes has been returned for an acyclic graph in
\* which one node lists another that a third one lists too.
C8_Witness ==
  /\ Called /\ out.status = "ok" /\ AllKeys(graph) /\ Acyclic(graph)
  /\ Len(out.result) = 4
  /\ \E u \in KeySet(graph), v \in KeySet(graph), w \in KeySet(graph) :
       {<<u, v>>, <<v, w>>, <<u, w>>} \subseteq Edges(graph)

\* C9 as claimed: when a node appears only in a dependency list and not as a
\* key (of an otherwise acyclic graph), topological_sort completes without
\* error and the node is in its output.
C9_NonKeyNodeIncluded ==
  (Called /\ ~AllKeys(graph) /\ Acyclic(graph)) =>
    /\ out.status = "ok"
    /\ AllDependents(graph) \ KeySet(graph) \subseteq Range(out.result)

\* C10 as claimed: for every graph (every node a key) with a directed cycle,
\* topological_sort(graph, cycle_check=True) raises ValueError.
C10_CycleRaisesValueError ==
  (Called /\ call[2] /\ AllKeys(graph) /\ ~Acyclic(graph)) =>
    out.status = "ValueError"

\* C26: for every acyclic graph in which every node is a key the cycle check
\* is read-only: the call made, with cycle_check or without, raises nothing
\* and has the outcome of the call with the other value of cycle_check, and
\* no call modifies the graph.
C26_CycleCheckReadOnly ==
  /\ []((Called /\ AllKeys(graph) /\ Acyclic(graph)) =>
         /\ out.status = "ok"
         /\ out = TopologicalSort(graph, ~call[2]))
  /\ [][graph' = graph]_vars

\* C26 witness: a call with cycle_check=True has returned, for an acyclic
\* graph of three edges or more, the list of the call without the check.
C26_Witness ==
  /\ Called /\ call[2] /\ AllKeys(graph) /\ Acyclic(graph)
  /\ Cardinality(Edges(graph)) >= 3
  /\ out.status = "ok"
  /\ out.result = TopologicalSort(graph, FALSE).result

\* No element occurs twice in list s.
NoRepeats(s) == \A i \in DOMAIN s, j \in DOMAIN s : s[i] = s[j] => i = j

\* The list result as the loop over the roots leaves it.
VisitedResult(g) == VisitRoots(g, Reverse(g.keys), 1, StartState).result

\* C27: on every graph in which every node is a key, with a cycle or without,
\* with and without cycle_check, the call ends (it returns a list or raises),
\* recurse is entered with each node at most once, and neither the list
\* result (the list returned, reversed, when one is returned) nor the list
\* returned holds a node twice.
C27_EachNodeEnteredOnce ==
  (Called /\ AllKeys(graph)) =>
    /\ out.status \in {"ok", "ValueError", "KeyError"}
    /\ NoRepeats(out.entered)
    /\ Range(out.entered) \subseteq KeySet(graph)
    /\ NoRepeats(out.result)
    /\ IF out.status = "ok"
         THEN Range(out.result) = Range(out.entered)
         ELSE LET result == VisitedResult(graph)
              IN  NoRepeats(result) /\ Range(result) = Range(out.entered)

\* C27 witness: a call has ended on a graph with a cycle in which recurse was
\* entered with three nodes, one of them listed by two of them.
C27_Witness ==
  /\ Called /\ AllKeys(graph) /\ ~Acyclic(graph)
  /\ Len(out.entered) >= 3
  /\ \E u \in Range(out.entered), w \in Range(out.entered), v \in Range(out.entered) :
       /\ u # w /\ <<u, v>> \in Edges(graph) /\ <<w, v>> \in Edges(graph)
       /\ v \in Descendants(graph, v)

-----------------------------------------------------------------------------
(* Properties of Stats, checked under SpecStats.                           *)

\* Each sample of xs n times in a row.
RECURSIVE EachRepeated(_, _)
EachRepeated(xs, n) ==
  IF xs = <<>> THEN <<>>
  ELSE [i \in 1 .. n |-> Head(xs)] \o EachRepeated(Tail(xs), n)

\* The instance is the one its samples give.
FromSamples(a, xs) == StatsEq(a, StatsNew(xs))

\* C11: Stats(xs ++ ys) == Stats(xs) + Stats(ys) for all lists xs and ys of
\* integer samples: the five fields of the sum are those of the concatenated
\* samples, in whatever order the samples come.
C11_AddIsConcat ==
  /\ (sop[1] = "add" /\ FromSamples(sprev, sprevOf)) =>
       /\ StatsEq(acc, StatsNew(sprevOf \o sop[2]))
       /\ StatsEq(acc, StatsNew(sop[2] \o sprevOf))
       /\ StatsEq(acc, StatsNew(Reverse(sprevOf \o sop[2])))
  /\ \A ys \in SampleLists(MaxSamples) :
       /\ StatsEq(StatsAdd(StatsNew(accOf), StatsNew(ys)), StatsNew(accOf \o ys))
       /\ StatsEq(StatsNew(accOf \o ys), StatsNew(ys \o accOf))

\* C11 witness: two non-empty instances have been added, and the minimum of
\* the sum is the operand's, not the one of the instance added to.
C11_Witness ==
  /\ sop[1] = "add" /\ sop[2] # <<>> /\ sprevOf # <<>>
  /\ FromSamples(sprev, sprevOf)
  /\ acc.min # sprev.min /\ acc.max = sprev.max
  /\ StatsEq(acc, StatsNew(accOf))

\* C12: Stats addition is commutative and associative, and the empty instance
\* Stats() is its identity on both sides.
C12_AddMonoid ==
  /\ \A ys \in SampleLists(MaxSamples) :
       LET b == StatsNew(ys)
       IN  /\ StatsEq(StatsAdd(acc, b), StatsAdd(b, acc))
           /\ \A zs \in SampleLists(1) :
                StatsEq(StatsAdd(StatsAdd(acc, b), StatsNew(zs)),
                        StatsAdd(acc, StatsAdd(b, StatsNew(zs))))
  /\ StatsEq(StatsAdd(acc, StatsEmpty), acc)
  /\ StatsEq(StatsAdd(StatsEmpty, acc), acc)
  /\ sop[1] = "add" => StatsEq(acc, StatsAdd(StatsNew(sop[2]), sprev))

\* C12 witness: the sum of two non-empty instances with different minima and
\* maxima has been formed, and it is the sum the other way round.
C12_Witness ==
  /\ sop[1] = "add" /\ sop[2] # <<>> /\ sprevOf # <<>>
  /\ StatsNew(sop[2]).min # sprev.min /\ StatsNew(sop[2]).max # sprev.max
  /\ StatsEq(acc, StatsAdd(StatsNew(sop[2]), sprev))

\* C13: for n >= 1, Stats(s) * n is Stats of the samples of s each repeated n
\* times: size, sum and sum of squares times n, min and max unchanged;
\* Stats(s) * 1 == Stats(s) and Stats(s) * 3 == Stats(s ++ s ++ s).
C13_MulIsRepeat ==
  (sop[1] = "mul" /\ sop[3] >= 1 /\ FromSamples(sprev, sprevOf)) =>
    /\ StatsEq(acc, StatsNew(EachRepeated(sprevOf, sop[3])))
    /\ StatsEq(acc, StatsNew(Repeat(sprevOf, sop[3])))
    /\ acc.size = sprev.size * sop[3] /\ acc.sum = sprev.sum * sop[3]
    /\ acc.sum2 = sprev.sum2 * sop[3]
    /\ acc.min = sprev.min /\ acc.max = sprev.max
    /\ sop[3] = 1 => StatsEq(acc, sprev)
    /\ sop[3] = 3 => StatsEq(acc, StatsNew(sprevOf \o sprevOf \o sprevOf))

\* C13 witness: a non-empty instance has been multiplied by 3.
C13_Witness ==
  /\ sop = <<"mul", <<>>, 3>> /\ sprevOf # <<>> /\ FromSamples(sprev, sprevOf)
  /\ acc.size = 3 * sprev.size /\ StatsEq(acc, StatsNew(accOf))

\* C14 as claimed: every instance reached by construction, additions and
\* scalings by n >= 0 has, when its count is 0, min = +inf, max = -inf, sum = 0
\* and sum of squares = 0.
C14_EmptyHasInfinities ==
  acc.size = 0 =>
    acc.min = PosInf /\ acc.max = NegInf /\ acc.sum = 0 /\ acc.sum2 = 0

\* C15 as claimed: no query divides by a count of 0; with count 0, avg, ssd,
\* var and sdv return NaN, rms returns 0, min returns +inf and max -inf; with
\* count 1, var returns 0.
C15_DegenerateQueries ==
  /\ \A q \in {StatsAvg(acc), StatsSsd(acc), StatsVar(acc), StatsSdv(acc),
               StatsRms(acc)} : q.kind # "ZeroDivision"
  /\ acc.size = 0 =>
       /\ StatsAvg(acc) = NaN /\ StatsSsd(acc) = NaN
       /\ StatsVar(acc) = NaN /\ StatsSdv(acc) = NaN
       /\ StatsRms(acc) = Zero
       /\ acc.min = PosInf /\ acc.max = NegInf
  /\ acc.size = 1 => StatsVar(acc) = Zero

\* The part of C15 that is about the computed queries only, without min and max.
C15_ComputedQueries ==
  /\ \A q \in {StatsAvg(acc), StatsSsd(acc), StatsVar(acc), StatsSdv(acc),
               StatsRms(acc)} : q.kind # "ZeroDivision"
  /\ acc.size = 0 =>
       /\ StatsAvg(acc) = NaN /\ StatsSsd(acc) = NaN
       /\ StatsVar(acc) = NaN /\ StatsSdv(acc) = NaN
       /\ StatsRms(acc) = Zero
  /\ acc.size = 1 => StatsVar(acc) = Zero

-----------------------------------------------------------------------------
(* Properties of fit_shape, checked under SpecFitShape.                    *)

FitCalled == fsIn # NoFitCall

\* The positions of the -1 entries of the shape passed.
Sentinels == {i \in DOMAIN fsIn[1] : fsIn[1][i] = -1}

\* All entries of the shape passed, except the -1 entries, are positive.
OthersPositive == \A i \in DOMAIN fsIn[1] \ Sentinels : fsIn[1][i] > 0

\* The product of the entries of s with entry i replaced by d.
ProdWith(s, i, d) == Prod([s EXCEPT ![i] = d])

\* C16 as claimed: with all entries positive except exactly one -1, and
\* num >= 1, fit_shape returns the shape with the -1 replaced by the smallest
\* positive integer d whose product with the other entries is >= num, the
\* other entries unchanged; a shape of positive entries with product >= num
\* is returned unchanged.
C16_SmallestFit ==
  FitCalled =>
    LET shape == fsIn[1]
        num == fsIn[2]
    IN  /\ (OthersPositive /\ Cardinality(Sentinels) = 1 /\ num >= 1) =>
             /\ fsOut.status = "ok"
             /\ Len(fsOut.shape) = Len(shape)
             /\ \A i \in DOMAIN shape :
                  IF i \in Sentinels
                    THEN /\ fsOut.kinds[i] \in {"int", "int64"}
                         /\ fsOut.shape[i] >= 1
                         /\ ProdWith(shape, i, fsOut.shape[i]) >= num
                         /\ ProdWith(shape, i, fsOut.shape[i] - 1) < num
                    ELSE fsOut.shape[i] = shape[i] /\ fsOut.kinds[i] = "int"
        /\ (OthersPositive /\ Sentinels = {} /\ Prod(shape) >= num) =>
             /\ fsOut.status = "ok"
             /\ fsOut.shape = shape
             /\ \A i \in DOMAIN shape : fsOut.kinds[i] = "int"

\* The values of C16 alone, whatever the type of the computed entry.
C16_SmallestFitValue ==
  FitCalled =>
    LET shape == fsIn[1]
        num == fsIn[2]
    IN  /\ (OthersPositive /\ Cardinality(Sentinels) = 1 /\ num >= 1) =>
             /\ fsOut.status = "ok"
             /\ \A i \in DOMAIN shape :
                  IF i \in Sentinels
                    THEN /\ fsOut.shape[i] >= 1
                         /\ ProdWith(shape, i, fsOut.shape[i]) >= num
                         /\ ProdWith(shape, i, fsOut.shape[i] - 1) < num
                    ELSE fsOut.shape[i] = shape[i]
        /\ (OthersPositive /\ Sentinels = {} /\ Prod(shape) >= num) =>
             fsOut.status = "ok" /\ fsOut.shape = shape

\* C17: fit_shape raises ValueError when more than one entry is -1, when an
\* entry other than -1 is <= 0, or when all entries are positive and their
\* product is < num; in every other case it returns a shape.
C17_RaisesValueError ==
  FitCalled =>
    LET shape == fsIn[1]
        num == fsIn[2]
        rejected == \/ Cardinality(Sentinels) > 1
                    \/ ~OthersPositive
                    \/ Sentinels = {} /\ OthersPositive /\ Prod(shape) < num
    IN  /\ fsOut.status \in {"ok", "ValueError"}
        /\ fsOut.status = "ValueError" <=> rejected
        /\ fsOut.status = "ok" => Len(fsOut.shape) = Len(shape)

\* C17 witness: a shape with two -1 and positive entries otherwise has been
\* rejected.
C17_Witness ==
  /\ FitCalled /\ Cardinality(Sentinels) = 2 /\ OthersPositive
  /\ fsOut.status = "ValueError"

-----------------------------------------------------------------------------
(* Properties of assemble_arrays, checked under SpecAssembleArrays.        *)

Packed == asOut.status = "ok"

\* The index in row-major order of the cell of coordinates c.
RECURSIVE RowMajor(_, _)
RowMajor(c, shape) ==
  IF c = <<>> THEN 0
  ELSE LET n == Len(c)
       IN  RowMajor(SubSeq(c, 1, n - 1), SubSeq(shape, 1, n - 1)) * shape[n] + c[n]

\* The coordinates of the grid cell of array i (i from 1).
CellOf(i) ==
  CHOOSE c \in Indices(asOut.shape) : RowMajor(c, asOut.shape) = i - 1

\* The largest extent along axis of the arrays of slice k (k from 1), 0 if
\* the slice has none.
MaxExtent(axis, k) ==
  MaxOf({0} \cup {asIn.arrays[i].head[axis] :
                    i \in {j \in DOMAIN asIn.arrays : CellOf(j)[axis] = k - 1}})

\* The total of the largest extents along axis and the spacing between slices.
ComputedTotal(axis) ==
  Sum([k \in 1 .. asOut.shape[axis] |-> MaxExtent(axis, k)])
    + asIn.spacing[axis] * (asOut.shape[axis] - 1)

\* The last slice of axis has been lengthened.
Lengthened(axis) == asIn.even[axis] /\ ComputedTotal(axis) % 2 = 1

\* The region of the output taken by array i along axis: first index and the
\* one after the last.
Lo(i, axis) == asOut.starts[i][axis]

Hi(i, axis) == asOut.starts[i][axis] + asIn.arrays[i].head[axis]

\* The layout of a call that returned: every array is in the output, inside
\* its row-major cell and inside the output, no two arrays overlap, and the
\* rest of the output is background.
PackedLayout ==
  LET G == DOMAIN asOut.shape
      N == DOMAIN asIn.arrays
  IN  /\ DOMAIN asOut.output = Indices(asOut.output_shape)
      /\ \A i \in N :
           /\ \A p \in Indices(asIn.arrays[i].head) :
                asOut.output[[a \in G |-> Lo(i, a) + p[a]]] = [src |-> i - 1, at |-> p]
           /\ \A a \in G :
                LET k == CellOf(i)[a] + 1
                IN  /\ asOut.origins[a][k] <= Lo(i, a)
                    /\ Hi(i, a) <= asOut.origins[a][k] + asOut.lengths[a][k]
                    /\ asOut.origins[a][k] + asOut.lengths[a][k] <= asOut.origins[a][k + 1]
                    /\ 0 <= Lo(i, a) /\ Hi(i, a) <= asOut.output_shape[a]
      /\ \A i \in N, j \in N :
           i # j => \E a \in G : Hi(i, a) <= Lo(j, a) \/ Hi(j, a) <= Lo(i, a)
      /\ \A c \in DOMAIN asOut.output :
           (\A i \in N : \E a \in G : c[a] < Lo(i, a) \/ c[a] >= Hi(i, a))
             => asOut.output[c] = Background

\* The output array of the doctest, by the array each element comes from.
DoctestOutput ==
  LET E(i, r, c) == [src |-> i, at |-> <<r, c>>]
      B == Background
      rows == <<
        <<E(0, 0, 0), E(0, 0, 1), E(0, 0, 2), B, E(1, 0, 0), B, E(2, 0, 0)>>,
        <<B,          B,          B,          B, E(1, 1, 0), B, B>>,
        <<E(3, 0, 0), E(3, 0, 1), B, E(4, 0, 0), E(4, 0, 1), E(4, 0, 2), B>> >>
  IN  [c \in Indices(<<3, 7>>) |-> rows[c[1] + 1][c[2] + 1]]

OriginsFromLengths(axis) ==
  \A k \in 1 .. asOut.shape[axis] :
    asOut.origins[axis][k] =
      Sum(SubSeq(asOut.lengths[axis], 1, k - 1)) + (k - 1) * asIn.spacing[axis]

\* With round_to_even off the output length is the sum of the slice lengths
\* and the spacing between them; the first slice starts at 0 and the last one
\* ends the output.
OutputLength(axis) ==
  /\ ~asIn.even[axis] =>
       asOut.output_shape[axis] =
         Sum(asOut.lengths[axis]) + asIn.spacing[axis] * (asOut.shape[axis] - 1)
  /\ asOut.origins[axis][1] = 0
  /\ asOut.output_shape[axis] =
       asOut.origins[axis][asOut.shape[axis]] + asOut.lengths[axis][asOut.shape[axis]]

\* N arrays of shape (1,) packed with shape=(N,), spacing 0 and round_to_even
\* off give their concatenation.
Concatenation ==
  (/\ Len(asIn.shape) = 1 /\ asIn.shape[1] = Len(asIn.arrays)
   /\ \A i \in DOMAIN asIn.arrays : asIn.arrays[i].head = <<1>>
   /\ asIn.spacing = <<0>> /\ asIn.even = <<FALSE>>) =>
    /\ asOut.output_shape = <<Len(asIn.arrays)>>
    /\ \A i \in DOMAIN asIn.arrays :
         asOut.output[<<i - 1>>] = [src |-> i - 1, at |-> <<0>>]

\* C19 as claimed: the length of each slice is the maximum extent of the
\* arrays of the slice (0 without arrays), origins and output length as above.
C19_SliceLengthIsMaxExtent ==
  Packed =>
    /\ \A axis \in DOMAIN asOut.shape :
         /\ \A k \in 1 .. asOut.shape[axis] :
              asOut.lengths[axis][k] = MaxExtent(axis, k)
         /\ OriginsFromLengths(axis)
         /\ OutputLength(axis)
    /\ Concatenation

\* C19, amended: the length of each slice is the maximum extent of the arrays
\* of the slice (0 without arrays), plus 1 for the last slice of an axis whose
\* round_to_even is set and whose total would be odd; the origin of slice k
\* is the sum of the lengths before it plus k times the spacing; with
\* round_to_even off the output length is the sum of the lengths plus
\* spacing * (count - 1); N arrays of shape (1,) give their concatenation.
C19_SliceLengths ==
  Packed =>
    /\ \A axis \in DOMAIN asOut.shape :
         /\ \A k \in 1 .. asOut.shape[axis] :
              asOut.lengths[axis][k] =
                MaxExtent(axis, k)
                  + (IF k = asOut.shape[axis] /\ Lengthened(axis) THEN 1 ELSE 0)
         /\ OriginsFromLengths(axis)
         /\ OutputLength(axis)
    /\ Concatenation

\* C19 witness: an axis of two or more slices with spacing between them, a
\* slice without arrays, and a last slice one longer than its arrays.
C19_Witness ==
  /\ Packed
  /\ \E axis \in DOMAIN asOut.shape :
       /\ asOut.shape[axis] >= 2 /\ asIn.spacing[axis] = 1
       /\ asOut.origins[axis][2] = asOut.lengths[axis][1] + 1
       /\ asOut.lengths[axis][asOut.shape[axis]] = MaxExtent(axis, asOut.shape[axis]) + 1
  /\ \E axis \in DOMAIN asOut.shape :
       \E k \in 1 .. asOut.shape[axis] : MaxExtent(axis, k) = 0

\* C20: on an axis whose round_to_even is set the output length is even; when
\* the computed total is odd exactly the last slice is one longer and the
\* origins of all cells are as without the flag; when the total is even, or
\* the flag is off, lengths, origins and output length are as computed.
C20_RoundToEven ==
  Packed =>
    \A axis \in DOMAIN asOut.shape :
      LET n == asOut.shape[axis]
          extra == IF Lengthened(axis) THEN 1 ELSE 0
      IN  /\ asIn.even[axis] => asOut.output_shape[axis] % 2 = 0
          /\ asOut.output_shape[axis] = ComputedTotal(axis) + extra
          /\ \A k \in 1 .. n :
               /\ asOut.lengths[axis][k] =
                    MaxExtent(axis, k) + (IF k = n THEN extra ELSE 0)
               /\ asOut.origins[axis][k] =
                    Sum([j \in 1 .. k - 1 |-> MaxExtent(axis, j)])
                      + (k - 1) * asIn.spacing[axis]

\* C20 witness: an axis of two or more slices with spacing, round_to_even set
\* and an odd total, whose output is one longer.
C20_Witness ==
  /\ Packed
  /\ \E axis \in DOMAIN asOut.shape :
       /\ asIn.even[axis] /\ asOut.shape[axis] >= 2
       /\ ComputedTotal(axis) % 2 = 1
       /\ asIn.spacing[axis] = 1
       /\ asOut.output_shape[axis] = ComputedTotal(axis) + 1

\* The length of the cell of array i along axis a.
CellLength(i, a) == asOut.lengths[a][CellOf(i)[a] + 1]

\* The extent of array i along axis a.
Extent(i, a) == asIn.arrays[i].head[a]

\* Where array i starts along axis a, counted from the origin of its cell.
PlacedAt(i, a) == asOut.starts[i][a] - asOut.origins[a][CellOf(i)[a] + 1]

\* C21: array i is placed along each grid axis at cell origin + offset; with
\* cell length L and array extent E, E <= L and the offset is 0 for align
\* 'start', L - E for 'stop' and floor((L - E) / 2) for 'center', by the align
\* of that array and axis, and always in [0, L - E]; the arrays of the doctest
\* start where its output shows them.
C21_AlignedOffset ==
  /\ Packed =>
       \A i \in DOMAIN asIn.arrays, a \in DOMAIN asOut.shape :
         LET L == CellLength(i, a)
             E == Extent(i, a)
             off == PlacedAt(i, a)
             align == asIn.align[i][a]
         IN  /\ E <= L
             /\ 0 <= off /\ off <= L - E
             /\ align = "start" => off = 0
             /\ align = "stop" => off = L - E
             /\ align = "center" => 2 * off <= L - E /\ L - E < 2 * off + 2
  /\ (Packed /\ asIn = DoctestArgs) =>
       asOut.starts = <<<<0, 0>>, <<0, 4>>, <<0, 6>>, <<2, 0>>, <<2, 3>>>>

\* C21 witness: in one output an array is centered with an odd remainder, one
\* is aligned at 'stop' and one at 'start', each in a cell longer than it.
C21_Witness ==
  /\ Packed
  /\ \E i \in DOMAIN asIn.arrays, a \in DOMAIN asOut.shape :
       /\ asIn.align[i][a] = "center"
       /\ CellLength(i, a) - Extent(i, a) = 1 /\ PlacedAt(i, a) = 0
  /\ \E i \in DOMAIN asIn.arrays, a \in DOMAIN asOut.shape :
       /\ asIn.align[i][a] = "stop"
       /\ CellLength(i, a) > Extent(i, a)
       /\ PlacedAt(i, a) = CellLength(i, a) - Extent(i, a)
  /\ \E i \in DOMAIN asIn.arrays, a \in DOMAIN asOut.shape :
       /\ asIn.align[i][a] = "start"
       /\ CellLength(i, a) > Extent(i, a) /\ PlacedAt(i, a) = 0

AssembleCalled == asOut.status # "none"

\* What C22 says a call is rejected for.
EmptyList == asIn.arrays = <<>>

DtypesDiffer ==
  \E i \in DOMAIN asIn.arrays, j \in DOMAIN asIn.arrays :
    asIn.arrays[i].dtype # asIn.arrays[j].dtype

TailsDiffer ==
  \E i \in DOMAIN asIn.arrays, j \in DOMAIN asIn.arrays :
    asIn.arrays[i].tail # asIn.arrays[j].tail

ShapeRejected == FitShape(asIn.shape, Len(asIn.arrays)).status = "ValueError"

AlignUnrecognized ==
  \E i \in DOMAIN asIn.arrays, a \in DOMAIN asIn.shape :
    asIn.align[i][a] \notin {"start", "center", "stop"}

Rejected ==
  EmptyList \/ DtypesDiffer \/ TailsDiffer \/ ShapeRejected \/ AlignUnrecognized

\* The computed dimension of the grid is a float: the shape is (-1,).
FloatShape ==
  \E a \in DOMAIN asIn.shape :
    FitShape(asIn.shape, Len(asIn.arrays)).kinds[a] = "float64"

\* C22 as claimed: assemble_arrays raises ValueError and returns no output
\* array when the list of arrays is empty, when the dtypes differ, when the
\* trailing dimensions differ, when fit_shape rejects the grid shape, or when
\* an alignment value is not one of 'start', 'center', 'stop'.
C22_RejectedRaisesValueError ==
  (AssembleCalled /\ Rejected) =>
    asOut.status = "ValueError" /\ asOut.output = <<>>

\* The part of C22 the code keeps: a rejected call returns no output array and
\* raises ValueError, unless only the alignment is wrong and the grid shape is
\* (-1,), where the TypeError of the float dimension comes first.
C22_RejectedRaises ==
  (AssembleCalled /\ Rejected) =>
    /\ asOut.output = <<>>
    /\ IF FloatShape /\ ~(EmptyList \/ DtypesDiffer \/ TailsDiffer)
         THEN asOut.status = "TypeError"
         ELSE asOut.status = "ValueError"

-----------------------------------------------------------------------------
(* Properties of grid_from_string and string_from_grid, checked under      *)
(* SpecGridRoundTrip.                                                      *)

\* C23 as claimed: for every string of equal-width nonempty lines and every
\* injective mapping covering its characters, string_from_grid of
\* grid_from_string, with the inverse mapping, is the string without its
\* leading and trailing newlines; so it is with no mapping.
C23_RoundTrip ==
  /\ gsOut.grid.status \in {"none", "ok"}
  /\ gsOut.text.status \in {"none", "ok"}
  /\ gsOut.text.status = "ok" => gsOut.text.text = StripNewlines(gsIn.s)

\* The part of C23 the code keeps: the round trip gives the stripped string
\* when no mapping is passed, or when no character of the mapping is above
\* the largest character of the string.
C23_RoundTripBelowMax ==
  (gsOut.grid.status # "none"
     /\ \A ch \in DOMAIN gsIn.int_from_ch.map : ch <= MaxOf(Range(gsIn.s))) =>
    /\ gsOut.grid.status = "ok"
    /\ gsOut.text.status \in {"none", "ok"}
    /\ gsOut.text.status = "ok" => gsOut.text.text = StripNewlines(gsIn.s)

-----------------------------------------------------------------------------
(* Properties of extended_gcd and modular_inverse, checked under           *)
(* SpecExtendedGcd.                                                        *)

\* d divides n, for d >= 1 and n >= 0.
Divides(d, n) == \E k \in 0 .. n : n = k * d

\* The greatest common divisor of a >= 0 and b >= 0; gcd(0, 0) = 0.
Gcd(a, b) ==
  IF a = 0 /\ b = 0 THEN 0
  ELSE CHOOSE d \in 1 .. (a + b) :
         /\ Divides(d, a) /\ Divides(d, b)
         /\ \A e \in 1 .. (a + b) : (Divides(e, a) /\ Divides(e, b)) => e <= d

GcdDone == eg.pc = "done"

\* What holds when a call has ended.
GcdResult ==
  /\ (GcdDone /\ eg.fn = "extended_gcd") =>
       /\ eg.status = "ok"
       /\ eg.ret[1] = Gcd(eg.a0, eg.b0)
       /\ eg.a0 * eg.ret[2] + eg.b0 * eg.ret[3] = eg.ret[1]
  /\ (GcdDone /\ eg.fn = "extended_gcd" /\ <<eg.a0, eg.b0>> = DoctestGcdArgs) =>
       eg.ret = <<1, -22, 9>>
  /\ (GcdDone /\ eg.fn = "modular_inverse" /\ Gcd(eg.a0, eg.b0) # 1) =>
       eg.status = "AssertionError" /\ eg.ret = <<>>
  /\ (GcdDone /\ eg.fn = "modular_inverse" /\ Gcd(eg.a0, eg.b0) = 1
        /\ eg.a0 >= 1 /\ eg.b0 >= 2) =>
       /\ eg.status = "ok"
       /\ 0 <= eg.ret[1] /\ eg.ret[1] < eg.b0
       /\ (eg.a0 * eg.ret[1]) % eg.b0 = 1
  /\ (GcdDone /\ eg.fn = "modular_inverse" /\ <<eg.a0, eg.b0>> = DoctestGcdArgs) =>
       eg.ret = <<49>>

\* C28: for a >= 0 and b >= 0 extended_gcd(a, b) ends and returns (g, x, y)
\* with g = gcd(a, b) and a * x + b * y = g; for coprime a >= 1 and b >= 2
\* modular_inverse(a, b) ends and returns r with 0 <= r < b and
\* (a * r) % b = 1; modular_inverse raises when gcd(a, b) # 1. Every
\* iteration of the loop makes b smaller.
C28_ExtendedGcd ==
  /\ []GcdResult
  /\ [][(eg.pc = "loop" /\ eg'.pc = "loop") => (0 <= eg'.b /\ eg'.b < eg.b)]_vars
  /\ <>GcdDone

\* C28 witness: modular_inverse has returned an inverse other than 1 and
\* than a itself, after a loop of extended_gcd that gave a negative x.
C28_Witness ==
  /\ GcdDone /\ eg.fn = "modular_inverse" /\ eg.status = "ok"
  /\ eg.a0 >= 2 /\ eg.b0 > eg.a0 /\ eg.x < 0
  /\ eg.ret[1] \notin {1, eg.a0}
  /\ (eg.a0 * eg.ret[1]) % eg.b0 = 1

-----------------------------------------------------------------------------
(* Properties of discrete_binary_search, checked under SpecBinarySearch.   *)

\* The precondition of the docstring on the arguments.
SearchPre ==
  /\ bs.xl0 < bs.xh0
  /\ bs.feval[bs.xl0] <= bs.y_desired /\ bs.y_desired < bs.feval[bs.xh0]

SearchDone == bs.pc = "done"

\* feval(xl) <= y_desired < feval(xh)
Bracketed(b) ==
  b.feval[b.xl] <= b.y_desired /\ b.y_desired < b.feval[b.xh]

\* What holds of a call made with the precondition: in the loop xl and xh stay
\* in the interval of the arguments and bracket y_desired, and the value
\* returned is an x in [xl, xh) with feval(x) <= y_desired < feval(x + 1).
SearchResult ==
  SearchPre =>
    /\ bs.pc = "loop" =>
         /\ bs.xl0 <= bs.xl /\ bs.xl < bs.xh /\ bs.xh <= bs.xh0
         /\ Bracketed(bs)
    /\ SearchDone =>
         /\ bs.status = "ok"
         /\ bs.xl0 <= bs.ret /\ bs.ret < bs.xh0
         /\ bs.feval[bs.ret] <= bs.y_desired
         /\ bs.y_desired < bs.feval[bs.ret + 1]

\* An iteration of the loop makes xh - xl smaller.
SearchShrinks ==
  (bs.pc = "loop" /\ bs'.pc = "loop") =>
    bs'.xh - bs'.xl < bs.xh - bs.xl

\* C29: for xl < xh and every feval on [xl, xh] with
\* feval(xl) <= y_desired < feval(xh), discrete_binary_search ends and returns
\* x with xl <= x < xh and feval(x) <= y_desired < feval(x + 1); the loop
\* keeps feval(xl) <= y_desired < feval(xh) and every iteration makes
\* xh - xl smaller.
C29_BinarySearch ==
  /\ []SearchResult
  /\ [][SearchShrinks]_vars
  /\ <>SearchDone

\* C29 witness: a search over the whole range, on a function that is not
\* monotone, has returned an x inside the interval, after the loop moved both
\* xl and xh.
C29_Witness ==
  /\ SearchPre /\ SearchDone /\ bs.status = "ok"
  /\ bs.xh0 - bs.xl0 >= 4
  /\ bs.xl0 < bs.xl /\ bs.xh < bs.xh0 /\ bs.ret = bs.xl
  /\ \E u \in bs.xl0 .. bs.xh0 - 1 : bs.feval[u] > bs.feval[u + 1]

-----------------------------------------------------------------------------
(* Properties of check_eq, checked under SpecCheckEq.                      *)

CheckCalled == ce.impl # "none"

\* a == b: the integers are equal, or every element of the array a equals
\* its counterpart.
CheckEqual == IF IsArray(ce.a) THEN AllEqual(ce.a, ce.b) ELSE ~Differ(ce.a, ce.b)

\* 'Check fails: <repr a> == <repr b>'
CheckFailsMessage == <<"Check fails: ", ce.a, " == ", ce.b>>

\* C30 as claimed: check_eq(a, b) of hhoppe_tools returns normally when
\* a == b and raises RuntimeError with the message
\* 'Check fails: <repr a> == <repr b>' when a != b (for an array a, when any
\* element differs), as hhoppe_utils.check_eq does.
C30_RaisesRuntimeError ==
  CheckCalled =>
    /\ CheckEqual => ce.out = Returns
    /\ ~CheckEqual =>
         ce.out = [status |-> "RuntimeError", message |-> CheckFailsMessage]
    /\ CheckEq(ce.a, ce.b) = UtilsCheckEq(ce.a, ce.b)

\* The part of C30 the code keeps: both functions return normally exactly
\* when a == b; hhoppe_utils.check_eq raises the RuntimeError claimed, and
\* hhoppe_tools.check_eq raises AssertionError with '<repr a> == <repr b>'.
C30_RaisesWhenDifferent ==
  CheckCalled =>
    /\ CheckEqual <=> ce.out = Returns
    /\ (~CheckEqual /\ ce.impl = "hhoppe_utils") =>
         ce.out = [status |-> "RuntimeError", message |-> CheckFailsMessage]
    /\ (~CheckEqual /\ ce.impl = "hhoppe_tools") =>
         ce.out = [status |-> "AssertionError", message |-> ReprEq(ce.a, ce.b)]

====
